---- MODULE Spec2Model ----
\* Verification model of git-rovo: the repository change-state engine
\* (package git: status parsing, binary detection, diff parsing, the
\* synthesis of diffs for untracked files, and the operations of Repository
\* that run the external git command on a repository) and the terminal
\* user interface (package tui: the key binding manager, the Model with
\* its key handlers, Update and the commands it returns).
\*
\* Text is modelled as a sequence of one-character strings, bytes as a
\* sequence of integers 0..255.  Every pure function of the package is an
\* operator that computes what the Go code computes; each specification
\* draws the inputs of one function from a bounded set (the output of the
\* external git process, the bytes of a file) and applies the function.
\* The strings of the user interface are TLA+ strings; a session of the
\* interface is a sequence of messages (key presses, window sizes, the
\* messages of commands that end) that go through Update.
EXTENDS Naturals, Integers, Sequences, FiniteSets, Bags, TLC

VARIABLES
    pc,         \* "input" while the external output is produced, "done" once parsed
    output,     \* GetStatus: raw combined output of `git status --porcelain=v1`
    files,      \* GetStatus: the returned []FileStatus
    content,    \* isBinaryContent: the bytes of the file
    binary,     \* isBinaryContent: the returned bool
    doc,        \* parseDiff: the lines git wrote, each with what it stands for
    diffs,      \* parseDiff, GetUntrackedFileDiff: the returned []DiffInfo
    disk,       \* what the file system holds at each path of the work tree
    filePaths,  \* GetUntrackedFileDiff: the requested paths
    exit,       \* exit status of the last git process a call ran (0: none failed)
    err,        \* the error the last call returned: <<>> is nil, else <<error>>
    repo,       \* the repository git keeps: HEAD tree, index, commits
    calls,      \* the git subcommands the last call ran, in order
    commits,    \* GetCommitHistory: the returned []CommitInfo
    workDir,    \* Repository.workDir
    op,         \* the last call of a Repository method: its name and arguments
    kbm,        \* the KeyBindingManager: its bindings and its config
    model,      \* the TUI Model
    cmds,       \* the commands the TUI returned that have not delivered their message
    ret,        \* the last call of the TUI: its name, arguments and results
    client,     \* the llm.Client: its providers and its default provider
    world,      \* what the repository of a session holds: files, commits, diffs
    msgs        \* the messages of commands that ran, not yet received by Update

\* the variables of the Repository operations on a repository
facadeVars == <<repo, calls, commits, workDir, op>>

\* the variables of the terminal user interface
tuiVars == <<kbm, model, cmds, ret>>

\* the variables of the LLM client and of the surroundings of a session
envVars == <<client, world, msgs>>

vars == <<pc, output, files, content, binary, doc, diffs, disk, filePaths,
          exit, err, facadeVars, tuiVars, envVars>>

\* ------------------------------------------------------------------ bounds

\* longest raw status output, in characters
MaxOutput == 7

\* longest file content given to the binary detector, in bytes
MaxContent == 10

\* length of the head of a file content whose bytes are drawn from all of
\* ContentBytes; the bytes after it are drawn from FillBytes
MaxHead == 3

\* most lines of a diff output
MaxDiffLines == 7

\* most paths given to GetUntrackedFileDiff
MaxRequested == 2

\* most bytes of the untracked file a diff is synthesized for
MaxSynth == 5

\* most commits of the history
MaxCommits == 2

\* "Skip very large files (> 1MB)": 1024*1024
MaxFileSize == 1048576

\* ------------------------------------------------------------- characters

LF == "\n"
CR == "\r"
SP == " "

\* characters a status output is drawn from: the blank and the untracked
\* marker, two change letters (also used as path characters), the newline
\* (git writes the control characters of a path C-quoted, so that the output
\* holds no carriage return)
StatusChars == {SP, "?", "M", "D", LF}

\* byte values the head of a file content is drawn from: NUL, control bytes,
\* the allowed tab, LF and CR, the last control byte and the first printable
\* one, a letter
ContentBytes == {0, 1, 9, 10, 13, 31, 32, 65}

\* byte values the rest of a file content is drawn from: a control byte and
\* a letter
FillBytes == {1, 65}

\* ------------------------------------------------------------ text helpers

\* s[from..] (Go: s[from-1:]), empty when from is past the end
Tail2(s, from) == SubSeq(s, from, Len(s))

\* strings.HasPrefix(s, p)
HasPrefix(s, p) == Len(s) >= Len(p) /\ SubSeq(s, 1, Len(p)) = p

\* runGitCommand's normalisation: only one trailing newline is removed
TrimTrailingNewline(s) ==
    IF Len(s) > 0 /\ s[Len(s)] = LF THEN SubSeq(s, 1, Len(s) - 1) ELSE s

\* bufio's dropCR: one trailing carriage return is removed from a line
DropCR(s) ==
    IF Len(s) > 0 /\ s[Len(s)] = CR THEN SubSeq(s, 1, Len(s) - 1) ELSE s

\* index of the first newline of s, 0 when there is none
FirstLF(s) ==
    LET at == {i \in 1..Len(s) : s[i] = LF}
    IN IF at = {} THEN 0 ELSE CHOOSE i \in at : \A j \in at : i <= j

\* the tokens of bufio.NewScanner(strings.NewReader(s)) with the default
\* ScanLines split function: lines end at a newline, a final line without
\* newline is returned when non-empty, a trailing CR is dropped (for lines
\* below the token limit of 64 KiB, which all lines of the model are)
RECURSIVE ScanLines(_)
ScanLines(s) ==
    IF Len(s) = 0 THEN <<>>
    ELSE LET i == FirstLF(s) IN
         IF i = 0 THEN <<DropCR(s)>>
         ELSE <<DropCR(SubSeq(s, 1, i - 1))>> \o ScanLines(Tail2(s, i + 1))

\* ------------------------------------------------------------- GetStatus

\* FileStatusOf without the "??" exception of Modified
FileStatusOf_ModifiedUntracked(line) ==
    LET status == SubSeq(line, 1, 2)
    IN [Path     |-> Tail2(line, 4),
        Status   |-> status,
        Staged   |-> status[1] # SP /\ status[1] # "?",
        Modified |-> status[2] # SP]

\* FileStatusOf with the two columns of the code swapped
FileStatusOf_ColumnsSwapped(line) ==
    LET status == SubSeq(line, 1, 2)
    IN [Path     |-> Tail2(line, 4),
        Status   |-> status,
        Staged   |-> status[2] # SP /\ status[2] # "?",
        Modified |-> status[1] # SP /\ status # <<"?", "?">>]

\* FileStatusOf with the path taken from the separating blank on
FileStatusOf_KeepsBlank(line) ==
    LET status == SubSeq(line, 1, 2)
    IN [Path     |-> Tail2(line, 3),
        Status   |-> status,
        Staged   |-> status[1] # SP /\ status[1] # "?",
        Modified |-> status[2] # SP /\ status # <<"?", "?">>]

\* the FileStatus built from one line of at least 3 characters
FileStatusOf(line) ==
    LET status == SubSeq(line, 1, 2)
        stagedChar == status[1]
        unstagedChar == status[2]
    IN [Path     |-> Tail2(line, 4),
        Status   |-> status,
        Staged   |-> stagedChar # SP /\ stagedChar # "?",
        Modified |-> unstagedChar # SP /\ status # <<"?", "?">>]

\* the loop of GetStatus over the scanned lines
RECURSIVE StatusLoop(_)
StatusLoop(lines) ==
    IF lines = <<>> THEN <<>>
    ELSE IF Len(Head(lines)) < 3 THEN StatusLoop(Tail(lines))
    ELSE <<FileStatusOf(Head(lines))>> \o StatusLoop(Tail(lines))

\* strings.TrimSpace in place of the trailing-newline trim
RECURSIVE TrimSpace(_)
TrimSpace(s) ==
    IF s = <<>> THEN s
    ELSE IF Head(s) \in {SP, LF, CR} THEN TrimSpace(Tail(s))
    ELSE IF s[Len(s)] \in {SP, LF, CR} THEN TrimSpace(SubSeq(s, 1, Len(s) - 1))
    ELSE s

RunGitCommand_TrimSpace(raw) == TrimSpace(raw)

\* what runGitCommand returns for the raw combined output of the process
RunGitCommand(raw) == TrimTrailingNewline(raw)

\* GetStatus on a successful status command whose raw output is raw
GetStatus(raw) == StatusLoop(ScanLines(RunGitCommand(raw)))

\* ------------------------------------------------------- isBinaryContent

\* number of control bytes other than tab, LF, CR
RECURSIVE NonPrintable(_)
NonPrintable(bytes) ==
    IF bytes = <<>> THEN 0
    ELSE (IF Head(bytes) < 32 /\ Head(bytes) # 9 /\ Head(bytes) # 10 /\ Head(bytes) # 13
          THEN 1 ELSE 0) + NonPrintable(Tail(bytes))

\* the threshold taken as "at least 30%"
RatioAbove30_AtLeast(n, len) == 10 * n >= 3 * len

\* float64(n)/float64(len) > 0.3: the quotient of two integers below 2^53 is
\* rounded to the nearest double and 0.3 is the double nearest to 3/10, so
\* for every length a file can have the comparison is that of the exact
\* fractions
RatioAbove30(n, len) == 10 * n > 3 * len

IsBinaryContent(bytes) ==
    IF \E i \in 1..Len(bytes) : bytes[i] = 0 THEN TRUE
    ELSE Len(bytes) > 0 /\ RatioAbove30(NonPrintable(bytes), Len(bytes))

\* -------------------------------------------------------------- parseDiff

\* the prefixes parseDiff looks for
DiffGitPrefix == <<"d", "i", "f", "f", " ", "-", "-", "g", "i", "t">>
NewFileModePrefix == <<"n", "e", "w", " ", "f", "i", "l", "e", " ", "m", "o", "d", "e">>
DeletedFileModePrefix == <<"d", "e", "l", "e", "t", "e", "d", " ", "f", "i", "l", "e", " ", "m", "o", "d", "e">>
RenameFromPrefix == <<"r", "e", "n", "a", "m", "e", " ", "f", "r", "o", "m">>
BinaryFilesPrefix == <<"B", "i", "n", "a", "r", "y", " ", "f", "i", "l", "e", "s">>
HunkPrefix == <<"@", "@">>
PlusPrefix == <<"+">>
Plus3Prefix == <<"+", "+", "+">>
MinusPrefix == <<"-">>
Minus3Prefix == <<"-", "-", "-">>

\* unicode.IsSpace on the characters of the model
IsSpace(c) == c \in {SP, LF, CR, "\t"}

\* strings.Fields(s): the maximal runs of non-space characters
RECURSIVE Fields(_)
Fields(s) ==
    IF s = <<>> THEN <<>>
    ELSE IF IsSpace(Head(s)) THEN Fields(Tail(s))
    ELSE LET stops == {i \in 1..Len(s) : IsSpace(s[i])}
             stop == IF stops = {} THEN Len(s) + 1
                     ELSE CHOOSE i \in stops : \A j \in stops : i <= j
         IN <<SubSeq(s, 1, stop - 1)>> \o Fields(Tail2(s, stop))

\* strings.TrimPrefix(s, p)
TrimPrefix(s, p) == IF HasPrefix(s, p) THEN Tail2(s, Len(p) + 1) ELSE s

\* strings.Join(lines, "\n")
RECURSIVE JoinLF(_)
JoinLF(lines) ==
    IF lines = <<>> THEN <<>>
    ELSE IF Len(lines) = 1 THEN lines[1]
    ELSE lines[1] \o <<LF>> \o JoinLF(Tail(lines))

\* &DiffInfo{}
EmptyDiffInfo ==
    [FilePath |-> <<>>, OldPath |-> <<>>, NewPath |-> <<>>, Status |-> <<>>,
     Additions |-> 0, Deletions |-> 0, Content |-> <<>>, IsBinary |-> FALSE]

\* the locals of parseDiff before the loop; current holds the DiffInfo that
\* currentDiff points to, and is empty while currentDiff is nil
ParseStart == [diffs |-> <<>>, current |-> <<>>, contentLines |-> <<>>]

\* the record a "diff --git" line starts
StartDiff(line) ==
    LET parts == Fields(line) IN
    IF Len(parts) >= 4
    THEN [EmptyDiffInfo EXCEPT !.OldPath = TrimPrefix(parts[3], <<"a", "/">>),
                               !.NewPath = TrimPrefix(parts[4], <<"b", "/">>),
                               !.FilePath = TrimPrefix(parts[4], <<"b", "/">>)]
    ELSE EmptyDiffInfo

\* the hunk-header branch setting Modified whatever was set
HunkStatus_Always(status) == <<"M">>

\* the hunk-header branch: Modified only when no status was set
HunkStatus(status) == IF status = <<>> THEN <<"M">> ELSE status

\* one turn of the loop of parseDiff, without the final append to contentLines
ParseBranch(st, line) ==
    LET cur == st.current
        has == cur # <<>>
    IN
    IF HasPrefix(line, DiffGitPrefix) THEN
        IF has
        THEN [diffs |-> Append(st.diffs, [cur[1] EXCEPT !.Content = JoinLF(st.contentLines)]),
              current |-> <<StartDiff(line)>>,
              contentLines |-> <<>>]
        ELSE [st EXCEPT !.current = <<StartDiff(line)>>]
    ELSE IF HasPrefix(line, NewFileModePrefix) THEN
        IF has THEN [st EXCEPT !.current[1].Status = <<"A">>] ELSE st
    ELSE IF HasPrefix(line, DeletedFileModePrefix) THEN
        IF has THEN [st EXCEPT !.current[1].Status = <<"D">>,
                               !.current[1].FilePath = cur[1].OldPath]
        ELSE st
    ELSE IF HasPrefix(line, RenameFromPrefix) THEN
        IF has THEN [st EXCEPT !.current[1].Status = <<"R">>] ELSE st
    ELSE IF HasPrefix(line, BinaryFilesPrefix) THEN
        IF has THEN [st EXCEPT !.current[1].IsBinary = TRUE] ELSE st
    ELSE IF HasPrefix(line, HunkPrefix) THEN
        IF has THEN [st EXCEPT !.current[1].Status = HunkStatus(cur[1].Status)] ELSE st
    ELSE IF HasPrefix(line, PlusPrefix) /\ ~HasPrefix(line, Plus3Prefix) THEN
        IF has THEN [st EXCEPT !.current[1].Additions = cur[1].Additions + 1] ELSE st
    ELSE IF HasPrefix(line, MinusPrefix) /\ ~HasPrefix(line, Minus3Prefix) THEN
        IF has THEN [st EXCEPT !.current[1].Deletions = cur[1].Deletions + 1] ELSE st
    ELSE st

\* one turn of the loop of parseDiff
ParseLine(st, line) ==
    LET after == ParseBranch(st, line)
    IN [after EXCEPT !.contentLines = Append(after.contentLines, line)]

\* the loop of parseDiff over the scanned lines
RECURSIVE ParseLoop(_, _)
ParseLoop(st, lines) ==
    IF lines = <<>> THEN st ELSE ParseLoop(ParseLine(st, Head(lines)), Tail(lines))

\* the return without "Save last diff"
ParseFinish_DropLast(st) == st.diffs

\* "Save last diff" and return
ParseFinish(st) ==
    IF st.current # <<>>
    THEN Append(st.diffs, [st.current[1] EXCEPT !.Content = JoinLF(st.contentLines)])
    ELSE st.diffs

\* parseDiff(diffOutput)
ParseDiff(diffOutput) == ParseFinish(ParseLoop(ParseStart, ScanLines(diffOutput)))

\* GetDiff (and showCommitDiff) on a successful command whose raw output is raw
GetDiff(raw) == ParseDiff(RunGitCommand(raw))

\* ------------------------------------- the diff output the git process writes
\* A written line is a record of what git meant by it (tag, paths, source
\* text); TextOf gives its characters, which is all parseDiff sees.

PathX == <<"x">>
PathY == <<"y">>
PathSpaced == <<"m", " ", "f">>

\* (old, new) of the file sections: an unchanged name, a rename, a name
\* holding a blank (which git writes unquoted in diff headers)
MarkerPaths == {<<PathX, PathX>>, <<PathX, PathY>>, <<PathSpaced, PathSpaced>>}

\* the text of added and removed source lines
AddedTexts == {<<"a">>, <<"+", "+", "i">>}
RemovedTexts == {<<"a">>, <<"-", "-", "i">>}

DevNull == <<"/", "d", "e", "v", "/", "n", "u", "l", "l">>

\* the written line of kind tag; txt is the source text of an added or
\* removed line, old and new the paths of the section (empty when unused)
Line(tag, o, n, txt) == [tag |-> tag, old |-> o, new |-> n, txt |-> txt]

\* a line before the first file section: the header `git show` prints, or a
\* warning of the process on stderr
PreludeLine == Line("pre", <<>>, <<>>, <<>>)
MarkerLine(o, n) == Line("marker", o, n, <<>>)
NewFileLine == Line("new", <<>>, <<>>, <<>>)
DeletedFileLine == Line("deleted", <<>>, <<>>, <<>>)
RenameFromLine(o) == Line("rename", o, <<>>, <<>>)
BinaryLine(o, n) == Line("binary", o, n, <<>>)
\* the old side of a new file and the new side of a deleted one are /dev/null
OldHeaderLine(kind, o) == Line("oldhdr", IF kind = "new" THEN DevNull ELSE <<"a", "/">> \o o, <<>>, <<>>)
NewHeaderLine(kind, n) == Line("newhdr", <<>>, IF kind = "deleted" THEN DevNull ELSE <<"b", "/">> \o n, <<>>)
HunkLine == Line("hunk", <<>>, <<>>, <<>>)
AddedLine(t) == Line("add", <<>>, <<>>, t)
RemovedLine(t) == Line("del", <<>>, <<>>, t)
ContextLine == Line("ctx", <<>>, <<>>, <<"a">>)

\* the characters of a written line
TextOf(l) ==
    CASE l.tag = "pre" -> <<"c", "o", "m", "m", "i", "t", " ", "1">>
      [] l.tag = "marker" -> DiffGitPrefix \o <<" ", "a", "/">> \o l.old \o <<" ", "b", "/">> \o l.new
      [] l.tag = "new" -> NewFileModePrefix \o <<" ", "1", "0", "0", "6", "4", "4">>
      [] l.tag = "deleted" -> DeletedFileModePrefix \o <<" ", "1", "0", "0", "6", "4", "4">>
      [] l.tag = "rename" -> RenameFromPrefix \o <<SP>> \o l.old
      [] l.tag = "binary" ->
            BinaryFilesPrefix \o <<" ", "a", "/">> \o l.old \o <<" ", "a", "n", "d", " ", "b", "/">> \o l.new \o <<" ", "d", "i", "f", "f", "e", "r">>
      [] l.tag = "oldhdr" -> Minus3Prefix \o <<SP>> \o l.old
      [] l.tag = "newhdr" -> Plus3Prefix \o <<SP>> \o l.new
      [] l.tag = "hunk" -> HunkPrefix \o <<" ", "-", "1", " ", "+", "1", " ", "@", "@">>
      [] l.tag = "add" -> <<"+">> \o l.txt
      [] l.tag = "del" -> <<"-">> \o l.txt
      [] l.tag = "ctx" -> <<SP>> \o l.txt

\* index of the marker of the section that line i of d belongs to, 0 before
\* the first section
MarkerOf(d, i) ==
    LET at == {j \in 1..i : d[j].tag = "marker"}
    IN IF at = {} THEN 0 ELSE CHOOSE j \in at : \A k \in at : k <= j

\* last line of the section whose marker is line m of d
SectionEnd(d, m) ==
    LET at == {j \in (m + 1)..Len(d) : d[j].tag = "marker"}
    IN IF at = {} THEN Len(d) ELSE (CHOOSE j \in at : \A k \in at : j <= k) - 1

\* what the section whose marker is line m of d does to its file
SectionKind(d, m) ==
    IF \E j \in m..SectionEnd(d, m) : d[j].tag = "new" THEN "new"
    ELSE IF \E j \in m..SectionEnd(d, m) : d[j].tag = "deleted" THEN "deleted"
    ELSE IF \E j \in m..SectionEnd(d, m) : d[j].tag = "rename" THEN "rename"
    ELSE "mod"

\* the lines git may write after the lines d, by the grammar of its output:
\*   output  ::= prelude* section*
\*   section ::= marker [new | deleted | rename] [binary | oldhdr newhdr hunk+]
\*   hunk    ::= hunkhdr (added | removed | context)+
\* (a rename section has different old and new paths, the others equal ones;
\* a new file has no removed or context lines, a deleted one no added or
\* context lines)
NextLines(d) ==
    LET last == IF d = <<>> THEN "" ELSE d[Len(d)].tag
        m == MarkerOf(d, Len(d))
        o == IF m = 0 THEN <<>> ELSE d[m].old
        n == IF m = 0 THEN <<>> ELSE d[m].new
        kind == IF m = 0 THEN "" ELSE SectionKind(d, m)
        sectionOver == \/ last \in {"", "pre", "new", "deleted", "rename", "binary",
                                    "add", "del", "ctx"}
                       \/ last = "marker" /\ o = n
        inHunk == last \in {"hunk", "add", "del", "ctx"}
    IN  (IF last \in {"", "pre"} THEN {PreludeLine} ELSE {})
        \cup (IF sectionOver THEN {MarkerLine(p[1], p[2]) : p \in MarkerPaths} ELSE {})
        \cup (IF last = "marker" /\ o = n THEN {NewFileLine, DeletedFileLine} ELSE {})
        \cup (IF last = "marker" /\ o # n THEN {RenameFromLine(o)} ELSE {})
        \cup (IF (last = "marker" /\ o = n) \/ last \in {"new", "deleted"}
              THEN {BinaryLine(o, n)} ELSE {})
        \cup (IF (last = "marker" /\ o = n) \/ last \in {"new", "deleted", "rename"}
              THEN {OldHeaderLine(kind, o)} ELSE {})
        \cup (IF last = "oldhdr" THEN {NewHeaderLine(kind, n)} ELSE {})
        \cup (IF last \in {"newhdr", "add", "del", "ctx"} THEN {HunkLine} ELSE {})
        \cup (IF inHunk /\ kind # "deleted" THEN {AddedLine(t) : t \in AddedTexts} ELSE {})
        \cup (IF inHunk /\ kind # "new" THEN {RemovedLine(t) : t \in RemovedTexts} ELSE {})
        \cup (IF inHunk /\ kind \notin {"new", "deleted"} THEN {ContextLine} ELSE {})

\* the bytes of the output: every line ends with a newline
RECURSIVE RawOf(_)
RawOf(d) == IF d = <<>> THEN <<>> ELSE TextOf(d[1]) \o <<LF>> \o RawOf(Tail(d))

\* -------------------------------------------------- GetUntrackedFileDiff

\* string(content) on the bytes of the sample contents
Chr(b) ==
    CASE b = 9 -> "\t" [] b = 10 -> LF [] b = 13 -> CR [] b = 32 -> SP
      [] b = 65 -> "A" [] b = 66 -> "B"

RECURSIVE StringOf(_)
StringOf(bytes) ==
    IF bytes = <<>> THEN <<>> ELSE <<Chr(Head(bytes))>> \o StringOf(Tail(bytes))

Digit(d) == CASE d = 0 -> "0" [] d = 1 -> "1" [] d = 2 -> "2" [] d = 3 -> "3"
              [] d = 4 -> "4" [] d = 5 -> "5" [] d = 6 -> "6" [] d = 7 -> "7"
              [] d = 8 -> "8" [] d = 9 -> "9"

\* fmt's %d of a natural number
RECURSIVE Itoa(_)
Itoa(n) == IF n < 10 THEN <<Digit(n)>> ELSE Itoa(n \div 10) \o <<Digit(n % 10)>>

\* strings.Split(s, "\n")
RECURSIVE Split(_)
Split(s) ==
    LET i == FirstLF(s) IN
    IF i = 0 THEN <<s>> ELSE <<SubSeq(s, 1, i - 1)>> \o Split(Tail2(s, i + 1))

\* what os.Stat and os.ReadFile find at a path
NoFile == [kind |-> "missing", size |-> 0, readable |-> FALSE, bytes |-> <<>>]
Directory == [kind |-> "dir", size |-> 0, readable |-> FALSE, bytes |-> <<>>]
RegularFile(bytes) ==
    [kind |-> "file", size |-> Len(bytes), readable |-> TRUE, bytes |-> bytes]
\* a file above the size limit (its bytes are never read)
LargeFile == [kind |-> "file", size |-> MaxFileSize + 1, readable |-> TRUE, bytes |-> <<>>]
\* a file that os.ReadFile fails on
UnreadableFile == [kind |-> "file", size |-> 1, readable |-> FALSE, bytes |-> <<>>]

\* the entry of the disk at a path
Stat(dsk, path) == IF path \in DOMAIN dsk THEN dsk[path] ELSE NoFile

\* the "+%s\n" lines of generateUntrackedFileDiff
RECURSIVE PlusLines(_)
PlusLines(lines) ==
    IF lines = <<>> THEN <<>>
    ELSE <<"+">> \o Head(lines) \o <<LF>> \o PlusLines(Tail(lines))

\* the diff-like content generateUntrackedFileDiff writes for a text file
UntrackedContent(filePath, bytes) ==
    LET lines == Split(StringOf(bytes)) IN
    DiffGitPrefix \o <<" ", "a", "/">> \o filePath \o <<" ", "b", "/">> \o filePath \o <<LF>>
    \o <<"n", "e", "w", " ", "f", "i", "l", "e", " ", "m", "o", "d", "e", " ", "1", "0", "0", "6", "4", "4">> \o <<LF>>
    \o <<"i", "n", "d", "e", "x", " ", "0", "0", "0", "0", "0", "0", "0", ".", ".", "0", "0", "0", "0", "0", "0", "0">> \o <<LF>>
    \o <<"-", "-", "-", " ", "/", "d", "e", "v", "/", "n", "u", "l", "l">> \o <<LF>>
    \o <<"+", "+", "+", " ", "b", "/">> \o filePath \o <<LF>>
    \o HunkPrefix \o <<" ", "-", "0", ",", "0", " ", "+", "1", ",">> \o Itoa(Len(lines)) \o <<SP>> \o HunkPrefix \o <<LF>>
    \o PlusLines(lines)

UntrackedInfo(filePath, isBinary, text) ==
    [FilePath |-> filePath, OldPath |-> <<>>, NewPath |-> <<>>, Status |-> <<"A">>,
     Additions |-> 0, Deletions |-> 0, Content |-> text, IsBinary |-> isBinary]

\* the size test with the limit itself counted as too large
ExceedsLimit_AtLeast(size) == size >= MaxFileSize

\* fileInfo.Size() > 1024*1024
ExceedsLimit(size) == size > MaxFileSize

\* generateUntrackedFileDiff(filePath): the sequence holds the returned
\* DiffInfo and is empty when nil is returned, with or without an error
GenerateUntrackedFileDiff(dsk, filePath) ==
    LET e == Stat(dsk, filePath) IN
    IF e.kind = "missing" THEN <<>>
    ELSE IF e.kind = "dir" THEN <<>>
    ELSE IF ExceedsLimit(e.size)
    THEN <<UntrackedInfo(filePath, TRUE,
               <<"B", "i", "n", "a", "r", "y", " ", "f", "i", "l", "e", " ">> \o filePath \o <<" ", "(", "s", "i", "z", "e", ":", " ">> \o Itoa(e.size) \o <<" ", "b", "y", "t", "e", "s", ")">>)>>
    ELSE IF ~e.readable THEN <<>>
    ELSE IF IsBinaryContent(e.bytes)
    THEN <<UntrackedInfo(filePath, TRUE, <<"B", "i", "n", "a", "r", "y", " ", "f", "i", "l", "e", " ">> \o filePath)>>
    ELSE <<UntrackedInfo(filePath, FALSE, UntrackedContent(filePath, e.bytes))>>

\* the keys of the untrackedFiles map
UntrackedFiles(status) ==
    {status[i].Path : i \in {j \in 1..Len(status) : status[j].Status = <<"?", "?">>}}

\* the requested paths taken as they are
FilterUntracked_All(paths, untracked) == paths

\* the requested paths that are keys of the map, in the order requested
RECURSIVE FilterUntracked(_, _)
FilterUntracked(paths, untracked) ==
    IF paths = <<>> THEN <<>>
    ELSE (IF Head(paths) \in untracked THEN <<Head(paths)>> ELSE <<>>)
         \o FilterUntracked(Tail(paths), untracked)

\* the orders in which `for path := range untrackedFiles` may visit the keys
KeyOrders(keys) ==
    {o \in [1..Cardinality(keys) -> keys] : \A i, j \in DOMAIN o : i # j => o[i] # o[j]}

\* the values targetFiles may have
TargetFiles(paths, untracked) ==
    IF Len(paths) > 0 THEN {FilterUntracked(paths, untracked)} ELSE KeyOrders(untracked)

\* the loop ended by the first file that gives no record
RECURSIVE GenerateAll_StopAtSkip(_, _)
GenerateAll_StopAtSkip(dsk, targets) ==
    IF targets = <<>> \/ GenerateUntrackedFileDiff(dsk, Head(targets)) = <<>> THEN <<>>
    ELSE GenerateUntrackedFileDiff(dsk, Head(targets)) \o GenerateAll_StopAtSkip(dsk, Tail(targets))

\* the loop "Generate diff for each untracked file"
RECURSIVE GenerateAll(_, _)
GenerateAll(dsk, targets) ==
    IF targets = <<>> THEN <<>>
    ELSE GenerateUntrackedFileDiff(dsk, Head(targets)) \o GenerateAll(dsk, Tail(targets))

\* ----------------------------------------------------------- runGitCommand

\* the directory the Repository was constructed on
WorkDir == "/repo"

\* the error of a failed command without the captured output
GitError_NoOutput(code, out) ==
    [msg |-> <<"g", "i", "t", SP, "c", "o", "m", "m", "a", "n", "d", SP, "f", "a", "i", "l", "e", "d", ":", SP, "e", "x", "i", "t", SP, "s", "t", "a", "t", "u", "s", SP>> \o Itoa(code), wraps |-> code]

\* fmt.Errorf("git command failed: %w\nOutput: %s", err, outputStr), err being
\* the *exec.ExitError of the exit status
GitError(code, out) ==
    [msg |-> <<"g", "i", "t", SP, "c", "o", "m", "m", "a", "n", "d", SP, "f", "a", "i", "l", "e", "d", ":", SP, "e", "x", "i", "t", SP, "s", "t", "a", "t", "u", "s", SP>> \o Itoa(code) \o <<LF>> \o <<"O", "u", "t", "p", "u", "t", ":", SP>> \o out,
     wraps |-> code]

\* a run that takes every exit status for success
RunGit_IgnoreExit(raw, code) == [out |-> RunGitCommand(raw), err |-> <<>>]

\* runGitCommand on a process that wrote raw and exited with code: the
\* returned string and error
RunGit(raw, code) ==
    [out |-> RunGitCommand(raw),
     err |-> IF code = 0 THEN <<>> ELSE <<GitError(code, RunGitCommand(raw))>>]

\* git's exit status for a fatal error
ExitFatal == 128

\* what git writes when it cannot work on the repository
FatalText == <<"f", "a", "t", "a", "l", ":", SP, "b", "a", "d", LF>>

\* ------------------------------------------------- idle parts of the state

StatusIdle == output = <<>> /\ files = <<>>
BinaryIdle == content = <<>> /\ binary = FALSE
DiffIdle == doc = <<>> /\ diffs = <<>>
UntrackedIdle == disk = <<>> /\ filePaths = <<>>
RepoIdle == repo = <<>> /\ calls = <<>> /\ commits = <<>> /\ workDir = WorkDir /\ op = <<>>
FacadeIdle == exit = 0 /\ err = <<>> /\ RepoIdle
EnvIdle == client = <<>> /\ world = <<>> /\ msgs = <<>>
TuiIdle == kbm = <<>> /\ model = <<>> /\ cmds = <<>> /\ ret = <<>> /\ EnvIdle

\* ---------------------------------------------- specification: GetStatus

\* the git process writes one more character of its output
StatusEmit ==
    /\ pc = "input"
    /\ Len(output) < MaxOutput
    /\ \E c \in StatusChars : output' = Append(output, c)
    /\ UNCHANGED <<pc, files, content, binary, doc, diffs, disk, filePaths>>
    /\ UNCHANGED <<exit, err, facadeVars, envVars, tuiVars, envVars>>

\* the process exits with success and GetStatus parses what it wrote
StatusParse ==
    /\ pc = "input"
    /\ files' = GetStatus(output)
    /\ pc' = "done"
    /\ UNCHANGED <<output, content, binary, doc, diffs, disk, filePaths>>
    /\ UNCHANGED <<exit, err, facadeVars, envVars, tuiVars, envVars>>

StatusInit == pc = "input" /\ StatusIdle /\ BinaryIdle /\ DiffIdle /\ UntrackedIdle /\ FacadeIdle /\ TuiIdle
StatusNext == StatusEmit \/ StatusParse
SpecStatus == StatusInit /\ [][StatusNext]_vars

\* ---------------------------------------- specification: isBinaryContent

\* one more byte of the file
ContentEmit ==
    /\ pc = "input"
    /\ Len(content) < MaxContent
    /\ \E b \in (IF Len(content) < MaxHead THEN ContentBytes ELSE FillBytes) :
           content' = Append(content, b)
    /\ UNCHANGED <<pc, output, files, binary, doc, diffs, disk, filePaths>>
    /\ UNCHANGED <<exit, err, facadeVars, envVars, tuiVars, envVars>>

ContentClassify ==
    /\ pc = "input"
    /\ binary' = IsBinaryContent(content)
    /\ pc' = "done"
    /\ UNCHANGED <<output, files, content, doc, diffs, disk, filePaths>>
    /\ UNCHANGED <<exit, err, facadeVars, envVars, tuiVars, envVars>>

BinaryInit == pc = "input" /\ StatusIdle /\ BinaryIdle /\ DiffIdle /\ UntrackedIdle /\ FacadeIdle /\ TuiIdle
BinaryNext == ContentEmit \/ ContentClassify
SpecBinary == BinaryInit /\ [][BinaryNext]_vars

\* ---------------------------------------------- specification: parseDiff

\* the git process writes one more line of its output
DiffEmit ==
    /\ pc = "input"
    /\ Len(doc) < MaxDiffLines
    /\ \E l \in NextLines(doc) : doc' = Append(doc, l)
    /\ UNCHANGED <<pc, output, files, content, binary, diffs, disk, filePaths>>
    /\ UNCHANGED <<exit, err, facadeVars, envVars, tuiVars, envVars>>

\* the process exits with success and its output is parsed
DiffParse ==
    /\ pc = "input"
    /\ diffs' = GetDiff(RawOf(doc))
    /\ pc' = "done"
    /\ UNCHANGED <<output, files, content, binary, doc, disk, filePaths>>
    /\ UNCHANGED <<exit, err, facadeVars, envVars, tuiVars, envVars>>

DiffInit == pc = "input" /\ StatusIdle /\ BinaryIdle /\ DiffIdle /\ UntrackedIdle /\ FacadeIdle /\ TuiIdle
DiffNext == DiffEmit \/ DiffParse
SpecDiff == DiffInit /\ [][DiffNext]_vars

\* ----------------------------------- specification: GetUntrackedFileDiff

PathZ == <<"z">>

\* the paths of the working tree
TreePaths == <<PathX, PathY, PathZ>>

\* what git status says of a path: nothing (clean or absent), untracked,
\* modified in the worktree, added to the index
StatusCodes == {<<>>, <<"?", "?">>, <<SP, "M">>, <<"A", SP>>}

\* the contents of the regular files: two lines of text, a NUL byte
FileContents == {<<65, 10, 66>>, <<65, 0>>}

DiskEntries ==
    {NoFile, Directory, LargeFile, UnreadableFile} \cup {RegularFile(b) : b \in FileContents}

\* what git status --porcelain=v1 writes for the codes of the tree paths
RECURSIVE StatusText(_, _)
StatusText(codes, i) ==
    IF i > Len(TreePaths) THEN <<>>
    ELSE (IF codes[i] = <<>> THEN <<>> ELSE codes[i] \o <<SP>> \o TreePaths[i] \o <<LF>>)
         \o StatusText(codes, i + 1)

\* all sequences of at most n tree paths
PathLists(n) == UNION {[1..k -> {TreePaths[i] : i \in 1..Len(TreePaths)}] : k \in 0..n}

\* the status command writes the codes of the tree paths and succeeds, or
\* fails with a fatal error
UntrackedInit ==
    /\ pc = "input"
    /\ \/ exit = 0 /\ \E codes \in [1..Len(TreePaths) -> StatusCodes] :
                          output = StatusText(codes, 1)
       \/ exit = ExitFatal /\ output = FatalText
    /\ disk \in [{TreePaths[i] : i \in 1..Len(TreePaths)} -> DiskEntries]
    /\ filePaths \in PathLists(MaxRequested)
    /\ files = <<>> /\ err = <<>>
    /\ BinaryIdle /\ DiffIdle /\ RepoIdle /\ TuiIdle

\* GetUntrackedFileDiff(filePaths...): files is its local `status`
GetUntrackedFileDiff ==
    /\ pc = "input"
    /\ LET r == RunGit(output, exit) IN
       IF r.err # <<>>
       THEN files' = <<>> /\ diffs' = <<>> /\ err' = r.err
       ELSE /\ files' = GetStatus(output)
            /\ \E targets \in TargetFiles(filePaths, UntrackedFiles(files')) :
                  diffs' = GenerateAll(disk, targets)
            /\ err' = <<>>
    /\ pc' = "done"
    /\ UNCHANGED <<output, content, binary, doc, disk, filePaths>>
    /\ UNCHANGED <<exit, facadeVars, tuiVars, envVars>>

UntrackedNext == GetUntrackedFileDiff
SpecUntracked == UntrackedInit /\ [][UntrackedNext]_vars

\* ------------------------------- specification: generateUntrackedFileDiff

\* the bytes of the untracked file: NUL, LF, 'A', 'B'
SynthBytes == {0, 10, 65, 66}

\* a regular file as os.Stat and os.ReadFile show it: the size os.Stat
\* reports, whether os.ReadFile succeeds, and the bytes it returns
SizedFile(bytes, size, readable) ==
    [kind |-> "file", size |-> size, readable |-> readable, bytes |-> bytes]

\* the sizes os.Stat may report: the length of the sample bytes, the limit
\* itself, one byte above the limit
StatSizes(bytes) == {Len(bytes), MaxFileSize, MaxFileSize + 1}

\* one more byte of the untracked file
SynthEmit ==
    /\ pc = "input"
    /\ Len(content) < MaxSynth
    /\ \E b \in SynthBytes : content' = Append(content, b)
    /\ UNCHANGED <<pc, output, files, binary, doc, diffs, disk, filePaths>>
    /\ UNCHANGED <<exit, err, facadeVars, envVars, tuiVars, envVars>>

\* generateUntrackedFileDiff(PathX) on the file
Synthesize ==
    /\ pc = "input"
    /\ \E size \in StatSizes(content), readable \in BOOLEAN :
          disk' = (PathX :> SizedFile(content, size, readable))
    /\ diffs' = GenerateUntrackedFileDiff(disk', PathX)
    /\ pc' = "done"
    /\ UNCHANGED <<output, files, content, binary, doc, filePaths>>
    /\ UNCHANGED <<exit, err, facadeVars, envVars, tuiVars, envVars>>

SynthInit == pc = "input" /\ StatusIdle /\ BinaryIdle /\ DiffIdle /\ UntrackedIdle /\ FacadeIdle /\ TuiIdle
SynthNext == SynthEmit \/ Synthesize
SpecSynth == SynthInit /\ [][SynthNext]_vars

\* ------------------------------------------------ the external git command
\* The repository the git process works on, and what each subcommand the
\* Repository runs does to it and writes.

\* the paths of the work tree, in the order git lists them
RepoPaths == <<PathX, PathY>>
RepoPathSet == {RepoPaths[k] : k \in 1..Len(RepoPaths)}

\* what a tree, the index or the disk holds at a path: nothing, or a file
\* with one of two contents
Versions == {NoFile, RegularFile(<<65>>), RegularFile(<<66>>)}

\* the commit messages: one line, plain or holding a '|'
Messages == {<<"m">>, <<"a", "|", "b">>}

EmptyTree == [p \in RepoPathSet |-> NoFile]

\* the repository before the first commit
EmptyRepo == [head |-> EmptyTree, index |-> EmptyTree, log |-> <<>>]

\* what git works on: the tree of HEAD, the index, the commit messages
\* (newest first) and the work tree
GitState(r, d) == [head |-> r.head, index |-> r.index, log |-> r.log, work |-> d]

\* the set of the paths of a list
PathSet(paths) == {paths[k] : k \in 1..Len(paths)}

\* the porcelain code of a tracked path (empty: not listed)
TrackedCode(g, p) ==
    LET h == g.head[p]
        i == g.index[p]
        w == g.work[p]
        x == IF i = h THEN SP ELSE IF h = NoFile THEN "A" ELSE IF i = NoFile THEN "D" ELSE "M"
        y == IF i = NoFile \/ w = i THEN SP ELSE IF w = NoFile THEN "D" ELSE "M"
    IN IF <<x, y>> = <<SP, SP>> THEN <<>> ELSE <<x, y>>

\* the porcelain code of a path that is on disk and not in the index
UntrackedCode(g, p) ==
    IF g.index[p] = NoFile /\ g.work[p] # NoFile THEN <<"?", "?">> ELSE <<>>

\* the lines of `git status --porcelain=v1` from path k on: the tracked
\* entries first, the untracked ones after them
RECURSIVE StatusLines(_, _, _)
StatusLines(g, k, untracked) ==
    IF k > Len(RepoPaths) THEN <<>>
    ELSE LET p == RepoPaths[k]
             code == IF untracked THEN UntrackedCode(g, p) ELSE TrackedCode(g, p)
         IN (IF code = <<>> THEN <<>> ELSE code \o <<SP>> \o p \o <<LF>>)
            \o StatusLines(g, k + 1, untracked)

\* the section `git diff` writes for a path whose content goes from old to new
DiffSection(p, old, new) ==
    LET kind == IF old = NoFile THEN "new" ELSE IF new = NoFile THEN "deleted" ELSE "mod" IN
    <<MarkerLine(p, p)>>
    \o (IF kind = "new" THEN <<NewFileLine>> ELSE IF kind = "deleted" THEN <<DeletedFileLine>> ELSE <<>>)
    \o <<OldHeaderLine(kind, p), NewHeaderLine(kind, p), HunkLine>>
    \o (IF old = NoFile THEN <<>> ELSE <<RemovedLine(StringOf(old.bytes))>>)
    \o (IF new = NoFile THEN <<>> ELSE <<AddedLine(StringOf(new.bytes))>>)

\* the lines of `git diff [--cached] [-- paths]` from path k on
RECURSIVE DiffLines(_, _, _, _)
DiffLines(g, k, staged, paths) ==
    IF k > Len(RepoPaths) THEN <<>>
    ELSE LET p == RepoPaths[k]
             old == IF staged THEN g.head[p] ELSE g.index[p]
             new == IF staged THEN g.index[p] ELSE g.work[p]
             shown == /\ old # new
                      /\ (staged \/ g.index[p] # NoFile)
                      /\ (paths = <<>> \/ p \in PathSet(paths))
         IN (IF shown THEN DiffSection(p, old, new) ELSE <<>>)
            \o DiffLines(g, k + 1, staged, paths)

\* the hash of the k-th commit of the history (the oldest is the first)
Hash(k) == <<Digit(k)>> \o <<"0", "0", "0", "0", "0", "0", "0", "0">>

\* the line of `git log --pretty=format:%H|%an|%ad|%s|%b --date=iso` for the
\* k-th newest of the commits: the author is written "t" and the date "d",
\* the body of a one-line message is empty
LogLine(g, k) ==
    Hash(Len(g.log) + 1 - k) \o <<"|", "t", "|", "d", "|">> \o g.log[k] \o <<"|">>

\* a subcommand: its name and its argument (paths, a message, a limit, or
\* the staged flag with paths)
Cmd(name, arg) == [name |-> name, arg |-> arg]

\* git's exit status when a commit or a checkout has nothing to work on
ExitError == 1

\* a run of git: exit status, combined output, the state it leaves
Ran(code, out, g) == [code |-> code, out |-> out, g |-> g]

\* what git does on a repository it can work on
Git(cmd, g) ==
    LET arg == cmd.arg IN
    CASE cmd.name = "status" ->
            Ran(0, StatusLines(g, 1, FALSE) \o StatusLines(g, 1, TRUE), g)
      [] cmd.name = "diff" ->
            Ran(0, RawOf(DiffLines(g, 1, arg.staged, arg.paths)), g)
      [] cmd.name = "add" ->
            \* a pathspec that matches no file is fatal; no pathspec adds nothing
            IF \E p \in PathSet(arg) : g.index[p] = NoFile /\ g.work[p] = NoFile
            THEN Ran(ExitFatal, FatalText, g)
            ELSE Ran(0, <<>>, [g EXCEPT !.index =
                        [p \in RepoPathSet |-> IF p \in PathSet(arg) THEN g.work[p] ELSE g.index[p]]])
      [] cmd.name = "add ." ->
            Ran(0, <<>>, [g EXCEPT !.index = g.work])
      [] cmd.name = "reset HEAD" ->
            \* HEAD names nothing before the first commit
            IF g.log = <<>> THEN Ran(ExitFatal, FatalText, g)
            ELSE Ran(0, <<>>, [g EXCEPT !.index =
                        [p \in RepoPathSet |-> IF arg = <<>> \/ p \in PathSet(arg)
                                               THEN g.head[p] ELSE g.index[p]]])
      [] cmd.name = "commit -m" ->
            IF g.index = g.head \/ arg = <<>>
            THEN Ran(ExitError, <<"n", "o", "t", "h", "i", "n", "g", SP, "t", "o", SP, "c", "o", "m", "m", "i", "t">> \o <<LF>>, g)
            ELSE Ran(0, <<"[", "m", "a", "i", "n", "]", SP>> \o arg \o <<LF>>,
                     [g EXCEPT !.head = g.index, !.log = <<arg>> \o g.log])
      [] cmd.name = "commit --amend -m" ->
            IF g.log = <<>> \/ arg = <<>> THEN Ran(ExitFatal, FatalText, g)
            ELSE Ran(0, <<"[", "m", "a", "i", "n", "]", SP>> \o arg \o <<LF>>,
                     [g EXCEPT !.head = g.index, !.log = <<arg>> \o Tail(g.log)])
      [] cmd.name = "rev-parse HEAD" ->
            IF g.log = <<>> THEN Ran(ExitFatal, FatalText, g)
            ELSE Ran(0, Hash(Len(g.log)) \o <<LF>>, g)
      [] cmd.name = "checkout HEAD --" ->
            IF g.head[arg] = NoFile
            THEN Ran(ExitError, <<"e", "r", "r", "o", "r", ":", SP, "p", "a", "t", "h", "s", "p", "e", "c">> \o <<LF>>, g)
            ELSE Ran(0, <<>>, [g EXCEPT !.index[arg] = g.head[arg], !.work[arg] = g.head[arg]])
      [] cmd.name = "log" ->
            IF g.log = <<>> THEN Ran(ExitFatal, FatalText, g)
            ELSE LET n == IF arg > 0 /\ arg < Len(g.log) THEN arg ELSE Len(g.log)
                 IN Ran(0, JoinLF([k \in 1..n |-> LogLine(g, k)]), g)

\* a run of git, which fails on a repository it cannot work on (a lock held
\* by another process, a damaged object store) and then changes nothing
Exec(cmd, g, broken) == IF broken THEN Ran(ExitFatal, FatalText, g) ELSE Git(cmd, g)

\* ------------------------------------------------------- GetCommitHistory

\* strings.SplitN(s, "|", n) for n > 0
RECURSIVE SplitN(_, _)
SplitN(s, n) ==
    LET at == {i \in 1..Len(s) : s[i] = "|"} IN
    IF n = 1 \/ at = {} THEN <<s>>
    ELSE LET i == CHOOSE j \in at : \A k \in at : j <= k
         IN <<SubSeq(s, 1, i - 1)>> \o SplitN(Tail2(s, i + 1), n - 1)

\* the most fields a log line is split into
LogFields == 5

\* the loop of GetCommitHistory over the scanned lines (the Date field,
\* parsed from parts[2], is left out)
RECURSIVE HistoryLoop(_)
HistoryLoop(lines) ==
    IF lines = <<>> THEN <<>>
    ELSE LET line == Head(lines)
             parts == SplitN(line, LogFields)
         IN (IF line = <<>> \/ Len(parts) < 4 THEN <<>>
             ELSE <<[Hash |-> parts[1], Author |-> parts[2], Subject |-> parts[4],
                     ShortHash |-> SubSeq(parts[1], 1, 8),
                     Body |-> IF Len(parts) = LogFields THEN parts[5] ELSE <<>>]>>)
            \o HistoryLoop(Tail(lines))

\* GetCommitHistory on the raw output of a successful log command
GetCommitHistory(raw) == HistoryLoop(ScanLines(RunGitCommand(raw)))

\* ------------------------------------- the operations of the Repository

\* fmt.Errorf(text): an error that wraps nothing
LocalError(text) == [msg |-> text, wraps |-> 0]

\* no check of the path list
PathsPrecondition_None(paths, text) == <<>>

\* `if len(filePaths) == 0 { return fmt.Errorf(...) }`
PathsPrecondition(paths, text) == IF Len(paths) = 0 THEN <<LocalError(text)>> ELSE <<>>

\* `if message == "" { return fmt.Errorf("commit message cannot be empty") }`
MessagePrecondition(message) ==
    IF message = <<>> THEN <<LocalError(<<"c", "o", "m", "m", "i", "t", SP, "m", "e", "s", "s", "a", "g", "e", SP, "c", "a", "n", "n", "o", "t", SP, "b", "e", SP, "e", "m", "p", "t", "y">>)>> ELSE <<>>

\* the repository and the disk as git sees them
G == GitState(repo, disk)

\* the path lists and the messages the operations are called with
StageLists == {<<>>, <<PathX>>, <<PathY>>, <<PathX, PathY>>}
CallMessages == Messages \cup {<<>>}

\* a call returns: op is the call, ran the runs of git it made (in order,
\* each with its subcommand), e the returned error, fs, ds and cs the
\* returned records; git leaves the state g
Return(name, args, g, ran, e, fs, ds, cs) ==
    /\ op' = [name |-> name, args |-> args]
    /\ repo' = [head |-> g.head, index |-> g.index, log |-> g.log]
    /\ disk' = g.work
    /\ calls' = [k \in 1..Len(ran) |-> ran[k].cmd]
    /\ exit' = IF ran = <<>> THEN 0 ELSE ran[Len(ran)].code
    /\ output' = IF ran = <<>> THEN <<>> ELSE ran[Len(ran)].out
    /\ err' = e
    /\ files' = fs /\ diffs' = ds /\ commits' = cs
    /\ UNCHANGED <<pc, content, binary, doc, filePaths, workDir, tuiVars, envVars>>

\* runGitCommand(cmd) on the state g: the run, with its subcommand and the
\* error runGitCommand returns
Run(cmd, g, broken) ==
    LET x == Exec(cmd, g, broken)
    IN [cmd |-> cmd, code |-> x.code, out |-> x.out, g |-> x.g, err |-> RunGit(x.out, x.code).err]

\* a status query that returns the records of the call before
CallGetStatus_Stale ==
    /\ pc = "ready"
    /\ \E broken \in BOOLEAN :
          LET x == Run(Cmd("status", <<>>), G, broken)
          IN Return("GetStatus", <<>>, x.g, <<x>>, x.err, files, <<>>, <<>>)

\* GetStatus()
CallGetStatus ==
    /\ pc = "ready"
    /\ \E broken \in BOOLEAN :
          LET x == Run(Cmd("status", <<>>), G, broken)
          IN Return("GetStatus", <<>>, x.g, <<x>>, x.err,
                    IF x.err = <<>> THEN GetStatus(x.out) ELSE <<>>, <<>>, <<>>)

\* GetDiff(staged, filePaths...)
CallGetDiff ==
    /\ pc = "ready"
    /\ \E broken, staged \in BOOLEAN, paths \in StageLists :
          LET x == Run(Cmd("diff", [staged |-> staged, paths |-> paths]), G, broken)
          IN Return("GetDiff", <<staged, paths>>, x.g, <<x>>, x.err, <<>>,
                    IF x.err = <<>> THEN GetDiff(x.out) ELSE <<>>, <<>>)

\* GetCommitHistory(limit)
CallGetCommitHistory ==
    /\ pc = "ready"
    /\ \E broken \in BOOLEAN, limit \in (-1)..MaxCommits :
          LET x == Run(Cmd("log", limit), G, broken)
          IN Return("GetCommitHistory", limit, x.g, <<x>>, x.err, <<>>, <<>>,
                    IF x.err = <<>> THEN GetCommitHistory(x.out) ELSE <<>>)

\* a mutation that checks pre and then runs one subcommand
Mutate(name, args, pre, cmd, broken) ==
    IF pre # <<>> THEN Return(name, args, G, <<>>, pre, <<>>, <<>>, <<>>)
    ELSE LET x == Run(cmd, G, broken)
         IN Return(name, args, x.g, <<x>>, x.err, <<>>, <<>>, <<>>)

\* StageFiles running `reset HEAD` in place of `add`
StageFiles_Unstages ==
    /\ pc = "ready"
    /\ \E broken \in BOOLEAN, paths \in StageLists :
          Mutate("StageFiles", paths, PathsPrecondition(paths, <<"n", "o", SP, "f", "i", "l", "e", "s", SP, "s", "p", "e", "c", "i", "f", "i", "e", "d", SP, "t", "o", SP, "s", "t", "a", "g", "e">>),
                 Cmd("reset HEAD", paths), broken)

\* StageFiles(filePaths...)
StageFiles ==
    /\ pc = "ready"
    /\ \E broken \in BOOLEAN, paths \in StageLists :
          Mutate("StageFiles", paths, PathsPrecondition(paths, <<"n", "o", SP, "f", "i", "l", "e", "s", SP, "s", "p", "e", "c", "i", "f", "i", "e", "d", SP, "t", "o", SP, "s", "t", "a", "g", "e">>),
                 Cmd("add", paths), broken)

\* UnstageFiles(filePaths...)
UnstageFiles ==
    /\ pc = "ready"
    /\ \E broken \in BOOLEAN, paths \in StageLists :
          Mutate("UnstageFiles", paths, PathsPrecondition(paths, <<"n", "o", SP, "f", "i", "l", "e", "s", SP, "s", "p", "e", "c", "i", "f", "i", "e", "d", SP, "t", "o", SP, "u", "n", "s", "t", "a", "g", "e">>),
                 Cmd("reset HEAD", paths), broken)

\* StageAll()
StageAll ==
    /\ pc = "ready"
    /\ \E broken \in BOOLEAN : Mutate("StageAll", <<>>, <<>>, Cmd("add .", <<>>), broken)

\* Commit(message), while the history is below its bound
Commit ==
    /\ pc = "ready"
    /\ Len(repo.log) < MaxCommits
    /\ \E broken \in BOOLEAN, message \in CallMessages :
          Mutate("Commit", message, MessagePrecondition(message), Cmd("commit -m", message), broken)

\* AmendCommit(message): the message is checked before any run of git, the
\* existence of a commit by `rev-parse HEAD` before the amend command
AmendCommit ==
    /\ pc = "ready"
    /\ \E broken \in BOOLEAN, message \in CallMessages :
          LET pre == MessagePrecondition(message)
              head == Run(Cmd("rev-parse HEAD", <<>>), G, broken)
              none == <<LocalError(<<"n", "o", SP, "c", "o", "m", "m", "i", "t", "s", SP, "f", "o", "u", "n", "d">>)>>
              amend == Run(Cmd("commit --amend -m", message), G, broken)
              Fail(ran, e) == Return("AmendCommit", message, G, ran, e, <<>>, <<>>, <<>>)
          IN IF pre # <<>> THEN Fail(<<>>, pre)
             ELSE IF head.err # <<>> THEN Fail(<<head>>, none)
             ELSE Return("AmendCommit", message, amend.g, <<head, amend>>, amend.err,
                         <<>>, <<>>, <<>>)

\* the record of a path in a status (empty: not listed)
EntryOf(status, path) ==
    LET at == {k \in 1..Len(status) : status[k].Path = path}
    IN IF at = {} THEN <<>> ELSE status[CHOOSE k \in at : TRUE].Status

\* DiscardChanges(path): by the status of the path, an untracked file is
\* removed from the disk and a path of HEAD is restored, index and content,
\* by `checkout HEAD --`; files is the status the call worked on.  For a
\* path that is in the index and not in HEAD the call either fails in the
\* checkout, or takes the path out of the index and leaves the file, or
\* takes it out of the index and removes the file
DiscardChanges ==
    /\ pc = "ready"
    /\ \E broken \in BOOLEAN, path \in RepoPathSet, outcome \in {"fail", "unstage", "remove"} :
          LET st == Run(Cmd("status", <<>>), G, broken)
              status == GetStatus(st.out)
              co == Run(Cmd("checkout HEAD --", path), G, broken)
              added == G.head[path] = NoFile /\ G.index[path] # NoFile
              Done(g, ran, e, fs) == Return("DiscardChanges", path, g, ran, e, fs, <<>>, <<>>)
          IN IF st.err # <<>> THEN Done(G, <<st>>, st.err, <<>>)
             ELSE IF EntryOf(status, path) = <<"?", "?">>
             THEN Done([G EXCEPT !.work[path] = NoFile], <<st>>, <<>>, status)
             ELSE IF added /\ outcome = "unstage"
             THEN Done([G EXCEPT !.index[path] = NoFile], <<st>>, <<>>, status)
             ELSE IF added /\ outcome = "remove"
             THEN Done([G EXCEPT !.index[path] = NoFile, !.work[path] = NoFile], <<st>>, <<>>, status)
             ELSE Done(co.g, <<st, co>>, co.err, status)

\* the paths the user writes files at; the other paths of the work tree
\* never hold a file
EditedPaths == {PathX}

\* the user writes a content to a file of the work tree; nothing is returned
Edit ==
    /\ pc = "ready"
    /\ \E path \in EditedPaths, v \in Versions \ {NoFile} :
          /\ disk[path] # v
          /\ Return("edit", path, [G EXCEPT !.work[path] = v], <<>>, <<>>, <<>>, <<>>, <<>>)

\* after New(workDir) on a repository without commits and an empty work tree
FacadeInit ==
    /\ pc = "ready"
    /\ StatusIdle /\ BinaryIdle /\ DiffIdle /\ filePaths = <<>>
    /\ disk = EmptyTree /\ repo = EmptyRepo
    /\ exit = 0 /\ err = <<>> /\ calls = <<>> /\ commits = <<>>
    /\ workDir = WorkDir /\ op = [name |-> "New", args |-> WorkDir]
    /\ TuiIdle

FacadeNext ==
    \/ CallGetStatus \/ CallGetDiff \/ CallGetCommitHistory
    \/ StageFiles \/ UnstageFiles \/ StageAll \/ Commit
    \/ AmendCommit \/ DiscardChanges \/ Edit
SpecFacade == FacadeInit /\ [][FacadeNext]_vars

\* ------------------------------------------------------ claims: GetStatus

Untracked == <<"?", "?">>

\* C1: every FileStatus returned by GetStatus whose code is "??" has
\* Staged = FALSE and Modified = FALSE: an entry is never untracked and
\* staged or modified at once
C1_UntrackedNeverStagedOrModified ==
    pc = "done" =>
        \A i \in 1..Len(files) :
            files[i].Status = Untracked => ~files[i].Staged /\ ~files[i].Modified

\* GetStatus returned an untracked entry
C1_Witness == pc = "done" /\ \E i \in 1..Len(files) : files[i].Status = Untracked

\* C2: for every returned entry with code c, Staged = (c[0] is neither blank
\* nor '?') and Modified = (c[1] is not blank and c is not "??"); "M " gives
\* staged and not modified, " M" gives modified and not staged, " D" gives
\* modified
C2_DerivedFlags ==
    pc = "done" =>
        \A i \in 1..Len(files) :
            LET c == files[i].Status IN
            /\ files[i].Staged = (c[1] \notin {SP, "?"})
            /\ files[i].Modified = (c[2] # SP /\ c # Untracked)
            /\ c = <<"M", SP>> => files[i].Staged /\ ~files[i].Modified
            /\ c = <<SP, "M">> => ~files[i].Staged /\ files[i].Modified
            /\ c = <<SP, "D">> => files[i].Modified

\* GetStatus returned a worktree-deleted entry and an index-modified one
C2_Witness ==
    /\ pc = "done"
    /\ \E i \in 1..Len(files) : files[i].Status = <<SP, "D">>
    /\ \E i \in 1..Len(files) : files[i].Status = <<"M", SP>>

\* the lines of a raw output, told without running the scanner: a line
\* starts at position 1 or right after a newline and ends before the next
\* newline or at the end of the output
LineStarts(raw) == {p \in 1..Len(raw) : p = 1 \/ raw[p - 1] = LF}
LineEnd(raw, p) ==
    IF \E i \in p..Len(raw) : raw[i] = LF
    THEN (CHOOSE i \in p..Len(raw) : raw[i] = LF /\ \A j \in p..(i - 1) : raw[j] # LF) - 1
    ELSE Len(raw)
LongLineStarts(raw) == {p \in LineStarts(raw) : LineEnd(raw, p) - p + 1 >= 3}

\* C3: GetStatus returns one FileStatus per line of at least 3 characters of
\* the command's output, in the order of the lines, and none for a shorter
\* line; its code is the first two characters of the line and its path the
\* rest from offset 3, leading blanks kept, on the first line as well
C3_OneRecordPerLine ==
    pc = "done" =>
        /\ Len(files) = Cardinality(LongLineStarts(output))
        /\ \A p \in LongLineStarts(output) :
              LET i == Cardinality({q \in LongLineStarts(output) : q <= p}) IN
              /\ files[i].Status = SubSeq(output, p, p + 1)
              /\ files[i].Path = SubSeq(output, p + 3, LineEnd(output, p))

\* the first line of the output starts with a blank and gave a record whose
\* path starts with a blank, and a shorter line was skipped
C3_Witness ==
    /\ pc = "done"
    /\ Len(output) >= 5 /\ output[1] = SP /\ output[4] = SP /\ output[5] # LF
    /\ output[2] # LF /\ output[3] # LF
    /\ Len(files) = 1
    /\ Cardinality(LineStarts(output)) >= 2

\* ------------------------------------------------ claims: isBinaryContent

\* the control bytes that count against a content: below 32, not tab, LF, CR
ControlCount(bytes) ==
    Cardinality({i \in 1..Len(bytes) : bytes[i] < 32 /\ bytes[i] \notin {9, 10, 13}})

\* C4: a content is binary iff it holds a NUL byte or it is not empty and
\* more than 30% of its bytes are control bytes other than tab, LF, CR; the
\* empty content is text, and so is one with exactly 30% such bytes and no NUL
C4_BinaryIffNulOrControlRatio ==
    pc = "done" =>
        /\ binary = (\/ \E i \in 1..Len(content) : content[i] = 0
                     \/ Len(content) > 0 /\ 10 * ControlCount(content) > 3 * Len(content))
        /\ content = <<>> => ~binary
        /\ (10 * ControlCount(content) = 3 * Len(content)
             /\ \A i \in 1..Len(content) : content[i] # 0) => ~binary

\* a content of 10 bytes, 3 of them control bytes and none NUL, was classified
C4_Witness ==
    /\ pc = "done"
    /\ Len(content) = 10
    /\ ControlCount(content) = 3
    /\ \A i \in 1..Len(content) : content[i] # 0
    /\ \E i \in 1..Len(content) : content[i] \in {9, 10, 13}

\* ------------------------------------------------------ claims: parseDiff

\* the lines git wrote, as text
DocLines == [i \in 1..Len(doc) |-> TextOf(doc[i])]

\* the lines that begin with the file-section marker
MarkerLines == {i \in 1..Len(doc) : HasPrefix(DocLines[i], DiffGitPrefix)}

\* the position among the file sections of the one whose marker is line m
Rank(m) == Cardinality({j \in MarkerLines : j <= m})

\* the lines of a text: the pieces between its newlines
RECURSIVE SplitLF(_)
SplitLF(s) ==
    LET i == FirstLF(s) IN
    IF i = 0 THEN <<s>> ELSE <<SubSeq(s, 1, i - 1)>> \o SplitLF(Tail2(s, i + 1))

\* the lines of the contents of records from..Len(ds), one after the other
RECURSIVE ContentLinesFrom(_, _)
ContentLinesFrom(ds, from) ==
    IF from > Len(ds) THEN <<>>
    ELSE SplitLF(ds[from].Content) \o ContentLinesFrom(ds, from + 1)

\* C5: parseDiff returns one DiffInfo per line that begins with "diff --git",
\* in the order of these lines (the record of a marker line holds that line
\* and no other marker line), the last record being saved at the end of the
\* input; an empty output gives no record
C5_OneRecordPerMarker ==
    pc = "done" =>
        /\ Len(diffs) = Cardinality(MarkerLines)
        /\ \A m \in MarkerLines :
              LET ls == SplitLF(diffs[Rank(m)].Content) IN
              /\ \E i \in 1..Len(ls) : ls[i] = DocLines[m]
              /\ Cardinality({i \in 1..Len(ls) : HasPrefix(ls[i], DiffGitPrefix)}) = 1
        /\ doc = <<>> => diffs = <<>>

\* an output with two different file sections was parsed
C5_Witness ==
    /\ pc = "done"
    /\ Len(diffs) = 2
    /\ \E m1, m2 \in MarkerLines : m1 < m2 /\ DocLines[m1] # DocLines[m2]

\* C6: round trip: every line of the input is, once and in order, a line of
\* the contents of the returned records, and the content of each record
\* starts with its own file-section marker line
C6_RoundTrip ==
    pc = "done" =>
        /\ ContentLinesFrom(diffs, 1) = DocLines
        /\ \A k \in 1..Len(diffs) : HasPrefix(diffs[k].Content, DiffGitPrefix)

\* the state of the loop of parseDiff after the first n lines
LoopAfter(n) == ParseLoop(ParseStart, SubSeq(DocLines, 1, n))

ChangeKinds == {<<"A">>, <<"D">>, <<"R">>}

\* C7: a hunk header never changes a change kind that a "new file mode",
\* "deleted file mode" or "rename from" line of the section has set, and sets
\* Modified when none was set; so the record of a section with a "new file
\* mode" line is Added however many hunk headers follow
C7_HunkKeepsChangeKind ==
    pc = "done" =>
        /\ \A n \in 0..(Len(doc) - 1) :
              LET before == LoopAfter(n).current
                  after == LoopAfter(n + 1).current
              IN (HasPrefix(DocLines[n + 1], HunkPrefix) /\ before # <<>>) =>
                    /\ before[1].Status \in ChangeKinds =>
                          after[1].Status = before[1].Status
                    /\ before[1].Status = <<>> => after[1].Status = <<"M">>
        /\ \A m \in MarkerLines :
              SectionKind(doc, m) = "new" => diffs[Rank(m)].Status = <<"A">>

\* a section with a "new file mode" line and two hunk headers was parsed
C7_Witness ==
    /\ pc = "done"
    /\ \E m \in MarkerLines :
          /\ SectionKind(doc, m) = "new"
          /\ Cardinality({i \in m..SectionEnd(doc, m) : doc[i].tag = "hunk"}) >= 2
          /\ diffs[Rank(m)].Status = <<"A">>

\* C8: the record of a section with a "deleted file mode" line is Deleted and
\* its FilePath is its OldPath; the FilePath of every other record is the new
\* path of the marker line of its section, without the b/ prefix
C8_FilePath ==
    pc = "done" =>
        \A m \in MarkerLines :
            LET d == diffs[Rank(m)] IN
            IF SectionKind(doc, m) = "deleted"
            THEN d.Status = <<"D">> /\ d.FilePath = d.OldPath
            ELSE d.FilePath = doc[m].new

\* C9: Additions of a record is the number of added lines of its section and
\* Deletions the number of removed lines; header and context lines do not count
C9_LineCounts ==
    pc = "done" =>
        \A m \in MarkerLines :
            LET d == diffs[Rank(m)]
                sec == m..SectionEnd(doc, m)
            IN /\ d.Additions = Cardinality({i \in sec : doc[i].tag = "add"})
               /\ d.Deletions = Cardinality({i \in sec : doc[i].tag = "del"})

\* ------------------------------------------- claims: GetUntrackedFileDiff

\* the tree paths the status output lists with code "??", read off the text
UntrackedReported ==
    LET ls == SplitLF(output) IN
    {TreePaths[i] : i \in {j \in 1..Len(TreePaths) :
        \E k \in 1..Len(ls) : ls[k] = <<"?", "?", SP>> \o TreePaths[j]}}

\* the paths at which the disk holds a regular file that is above the size
\* limit or can be read
Synthesizable == {p \in DOMAIN disk : disk[p].kind = "file" /\
                                      (disk[p].size > MaxFileSize \/ disk[p].readable)}

RequestedPaths == {filePaths[i] : i \in 1..Len(filePaths)}
ReturnedPaths == {diffs[k].FilePath : k \in 1..Len(diffs)}

\* C10: GetUntrackedFileDiff returns records only for paths the status lists
\* with code "??"; with requested paths it returns the records of the
\* requested paths that are untracked (a tracked, staged or absent requested
\* path is dropped, an untracked path not requested is left out); without
\* requested paths it returns one record for every untracked file
C10_OnlyUntrackedPaths ==
    pc = "done" =>
        /\ ReturnedPaths \subseteq UntrackedReported
        /\ filePaths # <<>> =>
              ReturnedPaths = (RequestedPaths \cap UntrackedReported) \cap Synthesizable
        /\ filePaths = <<>> =>
              /\ ReturnedPaths = UntrackedReported \cap Synthesizable
              /\ Len(diffs) = Cardinality(ReturnedPaths)

\* paths were requested: one of them is not untracked and holds a regular
\* file, one is untracked and got a record, and an untracked file that was
\* not requested got none
C10_Witness ==
    /\ pc = "done"
    /\ \E p \in RequestedPaths : p \notin UntrackedReported /\ p \in Synthesizable
    /\ \E p \in RequestedPaths : p \in UntrackedReported /\ p \in ReturnedPaths
    /\ \E p \in UntrackedReported \cap Synthesizable : p \notin RequestedPaths

\* ------------------------------------- claims: generateUntrackedFileDiff

\* the k-th line of a text, located directly in the text
LineAt(raw, k) ==
    LET p == CHOOSE q \in LineStarts(raw) :
                 Cardinality({r \in LineStarts(raw) : r <= q}) = k
    IN SubSeq(raw, p, LineEnd(raw, p))

\* the number of lines of a text: a final newline ends the last line and
\* starts no further one
LineCount(raw) == Cardinality(LineStarts(raw))

\* the file of the synthesis specification
SynthFile == disk[PathX]

\* the file was read and found to be text
SynthText ==
    /\ pc = "done" /\ PathX \in DOMAIN disk
    /\ SynthFile.size <= MaxFileSize /\ SynthFile.readable
    /\ \A i \in 1..Len(SynthFile.bytes) : SynthFile.bytes[i] # 0

\* the hunk header that declares n new lines
HunkHeader(n) ==
    <<"@", "@", " ", "-", "0", ",", "0", " ", "+", "1", ",">> \o Itoa(n) \o <<" ", "@", "@">>

\* C11: for an untracked text file of N lines the record has status "A",
\* IsBinary false, and a content whose sixth line is "@@ -0,0 +1,N @@",
\* followed by exactly N lines, the k-th being "+" and the k-th line of
\* the file
C11_HunkDeclaresSourceLines ==
    SynthText =>
        LET src == StringOf(SynthFile.bytes)
            n == LineCount(src)
            c == diffs[1].Content
        IN /\ Len(diffs) = 1
           /\ diffs[1].Status = <<"A">> /\ ~diffs[1].IsBinary
           /\ LineCount(c) = 5 + 1 + n
           /\ LineAt(c, 6) = HunkHeader(n)
           /\ \A k \in 1..n : LineAt(c, 6 + k) = <<"+">> \o LineAt(src, k)

\* the "Binary file ..." texts, made of the path and the size alone
BinaryPlaceholders(filePath, size) ==
    {<<"B", "i", "n", "a", "r", "y", " ", "f", "i", "l", "e", " ">> \o filePath \o tail :
        tail \in {<<>>, <<" ", "(", "s", "i", "z", "e", ":", " ">> \o Itoa(size) \o <<" ", "b", "y", "t", "e", "s", ")">>}}

\* C12: the record of an untracked regular file is a binary placeholder
\* (IsBinary, status "A", no additions, no deletions, a "Binary file ..."
\* text made of the path and the size) iff its size is above 1,048,576 or
\* its content is classified binary; a file of exactly 1,048,576 bytes is
\* read (a failing read skips it) and classified by content, a larger
\* file is never read (a failing read changes nothing)
C12_BinaryPlaceholder ==
    (pc = "done" /\ PathX \in DOMAIN disk) =>
        LET f == SynthFile IN
        /\ f.size > MaxFileSize => Len(diffs) = 1 /\ diffs[1].IsBinary
        /\ (f.size <= MaxFileSize /\ ~f.readable) => diffs = <<>>
        /\ (f.size <= MaxFileSize /\ f.readable) =>
              /\ Len(diffs) = 1
              /\ diffs[1].IsBinary =
                    (\/ \E i \in 1..Len(f.bytes) : f.bytes[i] = 0
                     \/ 10 * ControlCount(f.bytes) > 3 * Len(f.bytes))
        /\ \A k \in 1..Len(diffs) :
              diffs[k].IsBinary =>
                  /\ diffs[k].Status = <<"A">>
                  /\ diffs[k].Additions = 0 /\ diffs[k].Deletions = 0
                  /\ diffs[k].Content \in BinaryPlaceholders(PathX, f.size)

\* a readable file of exactly 1,048,576 bytes whose content is text got a
\* text record
C12_Witness ==
    /\ pc = "done" /\ PathX \in DOMAIN disk
    /\ SynthFile.size = MaxFileSize /\ SynthFile.readable
    /\ Len(SynthFile.bytes) > 0
    /\ Len(diffs) = 1 /\ ~diffs[1].IsBinary

\* --------------------------------------------- claims: per-file skipping

\* the selected paths: the requested ones that are untracked, or every
\* untracked one when none is requested
SelectedPaths ==
    IF filePaths # <<>> THEN RequestedPaths \cap UntrackedReported ELSE UntrackedReported

\* the selected paths that give no record: a directory, a path whose stat
\* fails (nothing is there), a file whose read fails
SkippedPaths == SelectedPaths \ Synthesizable

\* C13: GetUntrackedFileDiff skips a selected path that is a directory or
\* whose stat or read fails, and returns nil error with one record per
\* other selected file; it returns an error, and no record, exactly when
\* the status command failed
C13_SkipsUnreadablePaths ==
    pc = "done" =>
        /\ (err # <<>>) = (exit # 0)
        /\ exit # 0 => diffs = <<>>
        /\ exit = 0 =>
              /\ ReturnedPaths = SelectedPaths \ SkippedPaths
              /\ \A p \in ReturnedPaths :
                    Cardinality({k \in 1..Len(diffs) : diffs[k].FilePath = p})
                      = Cardinality({i \in 1..Len(filePaths) : filePaths[i] = p}
                                        \cup (IF filePaths = <<>> THEN {0} ELSE {}))

\* the call succeeded with a record although a directory and a missing or
\* unreadable file were selected as well
C13_Witness ==
    /\ pc = "done" /\ err = <<>> /\ Len(filePaths) = 0 /\ Len(diffs) = 1
    /\ \E p \in SkippedPaths : disk[p].kind = "dir"
    /\ \E p \in SkippedPaths : disk[p].kind # "dir"

\* ------------------------------- claims: the operations of the Repository

\* strings.Contains(s, sub)
Contains(s, sub) ==
    \E i \in 0..(Len(s) - Len(sub)) : SubSeq(s, i + 1, i + Len(sub)) = sub

\* the last call ran a subcommand of this name
Issued(cs, name) == \E k \in 1..Len(cs) : cs[k].name = name

\* C14: StageFiles and UnstageFiles with no path and Commit with the empty
\* message return a local error that names the missing input, run no git
\* subcommand, and leave the repository and the work tree as they were
C14_LocalPreconditions ==
    [][(op'.name \in {"StageFiles", "UnstageFiles", "Commit"} /\ op'.args = <<>>) =>
          /\ err' # <<>>
          /\ err'[1] = LocalError(
                CASE op'.name = "StageFiles" -> <<"n", "o", SP, "f", "i", "l", "e", "s", SP, "s", "p", "e", "c", "i", "f", "i", "e", "d", SP, "t", "o", SP, "s", "t", "a", "g", "e">>
                  [] op'.name = "UnstageFiles" -> <<"n", "o", SP, "f", "i", "l", "e", "s", SP, "s", "p", "e", "c", "i", "f", "i", "e", "d", SP, "t", "o", SP, "u", "n", "s", "t", "a", "g", "e">>
                  [] op'.name = "Commit" -> <<"c", "o", "m", "m", "i", "t", SP, "m", "e", "s", "s", "a", "g", "e", SP, "c", "a", "n", "n", "o", "t", SP, "b", "e", SP, "e", "m", "p", "t", "y">>)
          /\ calls' = <<>>
          /\ repo' = repo /\ disk' = disk]_vars

\* StageFiles with no path failed locally while a change was staged
C14_Witness ==
    /\ op.name = "StageFiles" /\ op.args = <<>>
    /\ err # <<>> /\ calls = <<>>
    /\ repo.index # repo.head

CodeOf(g, p) == IF UntrackedCode(g, p) # <<>> THEN UntrackedCode(g, p) ELSE TrackedCode(g, p)

\* the code a fresh GetStatus reports for a path (empty: not reported)
PathState(g, p) == EntryOf(GetStatus(Git(Cmd("status", <<>>), g).out), p)

\* the state git works on after the step
GNext == GitState(repo', disk')

\* C16: DiscardChanges(path), when git can work on the repository: an
\* untracked file is removed from the disk; a tracked path with unstaged
\* modifications gets the content of HEAD back; a tracked path with staged
\* modifications gets the content of HEAD back and its index entry reset to
\* HEAD; in each case the call succeeds and a fresh status no longer reports
\* the path
C16_DiscardRestores ==
    [][(op'.name = "DiscardChanges" /\ exit' # ExitFatal) =>
          LET p == op'.args
              before == CodeOf(G, p)
              clean == /\ err' = <<>>
                       /\ PathState(GNext, p) = <<>>
                       /\ CodeOf(GNext, p) = <<>>
          IN /\ before = <<"?", "?">> => clean /\ disk'[p] = NoFile
             /\ before = <<SP, "M">> => clean /\ disk'[p] = repo.head[p]
             /\ before \in {<<"M", SP>>, <<"M", "M">>} =>
                   clean /\ disk'[p] = repo.head[p] /\ repo'.index[p] = repo.head[p]
             /\ repo'.head = repo.head /\ repo'.log = repo.log]_vars

\* DiscardChanges worked on a status that lists the path as staged and
\* modified, and the path now has the content of HEAD and is not reported
C16_Witness ==
    /\ op.name = "DiscardChanges" /\ err = <<>>
    /\ EntryOf(files, op.args) = <<"M", SP>>
    /\ disk[op.args] = repo.head[op.args] /\ disk[op.args] # NoFile
    /\ PathState(G, op.args) = <<>>

\* the states of a path: not reported (clean, or not there), and the codes
NotReported == <<>>
StagedAdded == <<"A", SP>>
UnstagedModified == <<SP, "M">>
StagedModified == <<"M", SP>>
NamedStates == {NotReported, Untracked, StagedAdded, UnstagedModified, StagedModified}

\* the transitions of stage, commit and edit on a path p
ListedTransitions(p) ==
    LET s == PathState(G, p)
        t == PathState(GNext, p)
        staged == op'.name = "StageFiles" /\ p \in PathSet(op'.args) /\ err' = <<>>
        committed == op'.name = "Commit" /\ err' = <<>>
        edited == op'.name = "edit" /\ op'.args = p
    IN /\ (staged /\ s = Untracked) => t = StagedAdded
       /\ (committed /\ s = StagedAdded) => t = NotReported
       /\ (edited /\ s = NotReported /\ repo.head[p] # NoFile) => t = UnstagedModified
       /\ (staged /\ s = UnstagedModified) => t = StagedModified
       /\ (committed /\ s = StagedModified) => t = NotReported

\* the step is a successful DiscardChanges(p)
Discarded(p) == op'.name = "DiscardChanges" /\ op'.args = p /\ err' = <<>>

\* the step changes what a status reports for p
Moved(p) ==
    /\ op'.name \in {"StageFiles", "Commit", "edit", "DiscardChanges"}
    /\ PathState(G, p) # PathState(GNext, p)

\* C17 as stated: the listed transitions; a discard leaves the path clean
\* if HEAD holds it and untracked otherwise; stage, commit, edit and discard
\* move a path between the five named states only
C17_AsStated ==
    [][\A p \in RepoPathSet :
          /\ ListedTransitions(p)
          /\ Discarded(p) =>
                PathState(GNext, p) = (IF repo.head[p] # NoFile THEN NotReported ELSE Untracked)
          /\ Moved(p) => PathState(GNext, p) \in NamedStates]_vars

\* C17: the listed transitions of stage, commit and edit hold; a successful
\* discard of an untracked, unstaged-modified or staged-modified path
\* leaves it not reported (the untracked file is removed, it does not stay
\* untracked); an edit of a staged path puts it in "AM" or "MM", outside
\* the five named states, and stage, commit, edit and discard lead to no
\* state other than these seven
C17_PathStateMachine ==
    [][\A p \in RepoPathSet :
          /\ ListedTransitions(p)
          /\ (Discarded(p) /\ PathState(G, p) \in {Untracked, UnstagedModified, StagedModified}) =>
                PathState(GNext, p) = NotReported
          /\ Moved(p) =>
                PathState(GNext, p) \in NamedStates \cup {<<"A", "M">>, <<"M", "M">>}
          /\ (Moved(p) /\ PathState(GNext, p) \notin NamedStates) =>
                op'.name = "edit" /\ repo.index[p] # repo.head[p]]_vars

\* DiscardChanges worked on a status that lists the path as untracked; HEAD
\* does not hold the path, the file is gone and the path is not reported
C17_Witness ==
    /\ op.name = "DiscardChanges" /\ err = <<>>
    /\ EntryOf(files, op.args) = Untracked
    /\ repo.head[op.args] = NoFile /\ disk[op.args] = NoFile
    /\ PathState(G, op.args) = NotReported

\* the operations that run one git subcommand and return its failure
FacadeOps ==
    {"GetStatus", "GetDiff", "GetCommitHistory", "StageFiles", "UnstageFiles", "StageAll", "Commit"}

\* C18: when the git process of GetStatus, GetDiff, GetCommitHistory,
\* StageFiles, UnstageFiles, StageAll or Commit exits non-zero, the call
\* returns an error that wraps the exit status and whose text holds the
\* combined output of the process (without its final newline), and no
\* record is returned with it
C18_FailureIsWrapped ==
    (op.name \in FacadeOps /\ exit # 0) =>
        /\ err # <<>>
        /\ err[1].wraps = exit
        /\ output # <<>> /\ Contains(err[1].msg, TrimTrailingNewline(output))
        /\ files = <<>> /\ diffs = <<>> /\ commits = <<>>

\* Commit failed because nothing was staged: git exited with status 1
C18_Witness ==
    /\ op.name = "Commit" /\ exit = ExitError
    /\ err # <<>> /\ err[1].wraps = ExitError
    /\ repo.index = repo.head

C20_HistoryRoundTrip ==
    (op.name = "GetCommitHistory" /\ err = <<>>) =>
        LET n == op.args
            total == Len(repo.log)
            want == IF n > 0 /\ n < total THEN n ELSE total
        IN /\ Len(commits) = want
           /\ \A k \in 1..want : k <= Len(commits) => commits[k].Subject = repo.log[k]

\* ------------------------------------ claims: counts of synthesized records

\* the '+' lines after the hunk header (the sixth line) of a synthesized content
AddedContentLines(c) ==
    {k \in 7..LineCount(c) : LineAt(c, k) # <<>> /\ LineAt(c, k)[1] = "+"}

\* C21: the record of an untracked text file has Additions equal to the
\* number of '+' lines after the hunk header of its content, and
\* Deletions 0
C21_SynthesizedCounts ==
    SynthText =>
        /\ Len(diffs) = 1
        /\ diffs[1].Additions = Cardinality(AddedContentLines(diffs[1].Content))
        /\ diffs[1].Deletions = 0

\* ====================================================================
\* The terminal user interface (package tui)
\* ====================================================================

\* --------------------------------------------------------------- ViewMode

ViewModeStatus == 0
ViewModeDiff == 1
ViewModeLog == 2
ViewModeHelp == 3

ViewModes == {ViewModeStatus, ViewModeDiff, ViewModeLog, ViewModeHelp}

\* ------------------------------------------------------ KeyBindingManager

\* a KeyBinding; Context is the set of the views its list names
KeyBinding(key, action, context) ==
    [Key |-> key, Action |-> action, Context |-> context]

\* the table of initializeDefaultBindings, in its order
defaultBindings == <<
    KeyBinding("q", "quit", {ViewModeStatus, ViewModeDiff, ViewModeLog, ViewModeHelp}),
    KeyBinding("ctrl+c", "quit", {ViewModeStatus, ViewModeDiff, ViewModeLog, ViewModeHelp}),
    KeyBinding("h", "help", {ViewModeStatus, ViewModeDiff, ViewModeLog}),
    KeyBinding("r", "refresh", {ViewModeStatus, ViewModeDiff, ViewModeLog}),
    KeyBinding("s", "status", {ViewModeDiff, ViewModeLog, ViewModeHelp}),
    KeyBinding("d", "diff", {ViewModeStatus, ViewModeLog, ViewModeHelp}),
    KeyBinding("l", "log", {ViewModeStatus, ViewModeDiff, ViewModeHelp}),
    KeyBinding("up", "nav_up", {ViewModeStatus, ViewModeLog}),
    KeyBinding("down", "nav_down", {ViewModeStatus, ViewModeLog}),
    KeyBinding("home", "nav_home", {ViewModeStatus, ViewModeDiff, ViewModeLog}),
    KeyBinding("end", "nav_end", {ViewModeStatus, ViewModeDiff, ViewModeLog}),
    KeyBinding("pgup", "nav_page_up", {ViewModeStatus, ViewModeDiff, ViewModeLog}),
    KeyBinding("ctrl+u", "nav_page_up", {ViewModeStatus, ViewModeDiff, ViewModeLog}),
    KeyBinding("pgdown", "nav_page_down", {ViewModeStatus, ViewModeDiff, ViewModeLog}),
    KeyBinding("ctrl+d", "nav_page_down", {ViewModeStatus, ViewModeDiff, ViewModeLog}),
    KeyBinding("space", "toggle_file", {ViewModeStatus}),
    KeyBinding("enter", "toggle_file", {ViewModeStatus}),
    KeyBinding("s", "stage_file", {ViewModeStatus}),
    KeyBinding("a", "stage_all", {ViewModeStatus}),
    KeyBinding("A", "unstage_all", {ViewModeStatus}),
    KeyBinding("u", "unstage_file", {ViewModeStatus}),
    KeyBinding("c", "commit", {ViewModeStatus}),
    KeyBinding("C", "quick_commit", {ViewModeStatus}),
    KeyBinding("1", "amend_commit", {ViewModeStatus}),
    KeyBinding("g", "generate_message", {ViewModeStatus}),
    KeyBinding("G", "regenerate_message", {ViewModeStatus}),
    KeyBinding("R", "reset_file", {ViewModeStatus}),
    KeyBinding("k", "discard_changes", {ViewModeStatus}),
    KeyBinding("tab", "toggle_section", {ViewModeStatus}),
    KeyBinding("ctrl+a", "select_all", {ViewModeStatus}),
    KeyBinding("ctrl+n", "clear_selection", {ViewModeStatus}),
    KeyBinding("left", "diff_prev_file", {ViewModeDiff}),
    KeyBinding("right", "diff_next_file", {ViewModeDiff}),
    KeyBinding("n", "toggle_line_numbers", {ViewModeDiff}),
    KeyBinding("w", "toggle_line_wrap", {ViewModeDiff}),
    KeyBinding("m", "cycle_diff_mode", {ViewModeDiff}),
    KeyBinding("t", "toggle_stats", {ViewModeDiff}),
    KeyBinding("T", "toggle_staged_unstaged", {ViewModeDiff}),
    KeyBinding("D", "show_staged_diff", {ViewModeStatus}),
    KeyBinding("enter", "show_commit_details", {ViewModeLog}),
    KeyBinding("ctrl+c", "copy_commit_hash", {ViewModeLog}),
    KeyBinding("ctrl+g", "toggle_graph", {ViewModeLog}),
    KeyBinding("any", "return_to_status", {ViewModeHelp}) >>

\* bindings[key] of the Go map: the nil slice when the key is absent
BindingsAt(bindings, key) ==
    IF key \in DOMAIN bindings THEN bindings[key] ELSE <<>>

\* bindings[key] = append(bindings[key], binding)
AppendBinding(bindings, key, binding) ==
    [k \in DOMAIN bindings \cup {key} |->
        IF k = key THEN Append(BindingsAt(bindings, key), binding)
        ELSE bindings[k]]

\* the bindings after the first n entries of the default table are registered
RECURSIVE RegisterDefaults(_)
RegisterDefaults(n) ==
    IF n = 0 THEN <<>>
    ELSE AppendBinding(RegisterDefaults(n - 1), defaultBindings[n].Key,
                       defaultBindings[n])

initializeDefaultBindings == RegisterDefaults(Len(defaultBindings))

\* the index of the first binding of the list with the action, 0 if none
FirstWithAction(bindingList, action) ==
    LET at == {i \in 1..Len(bindingList) : bindingList[i].Action = action}
    IN IF at = {} THEN 0 ELSE CHOOSE i \in at : \A j \in at : i <= j

\* append(bindingList[:i], bindingList[i+1:]...), i counted from 1
RemoveAt(bindingList, i) ==
    [k \in 1..(Len(bindingList) - 1) |->
        IF k < i THEN bindingList[k] ELSE bindingList[k + 1]]

\* one round of the loop over the keys of loadCustomBindings, at existingKey:
\* the first binding with the action leaves the list of existingKey (the key
\* is deleted when its list gets empty) and joins the list of key
MoveBinding(bindings, existingKey, action, key) ==
    LET bindingList == BindingsAt(bindings, existingKey)
        i == FirstWithAction(bindingList, action)
        rest == RemoveAt(bindingList, i)
        removed == IF rest = <<>>
                   THEN [k \in DOMAIN bindings \ {existingKey} |-> bindings[k]]
                   ELSE [bindings EXCEPT ![existingKey] = rest]
    IN IF i = 0 THEN bindings
       ELSE AppendBinding(removed, key, [bindingList[i] EXCEPT !.Key = key])

\* the loop over the keys, visited in the given order
RECURSIVE MoveBindings(_, _, _, _)
MoveBindings(bindings, order, action, key) ==
    IF order = <<>> THEN bindings
    ELSE MoveBindings(MoveBinding(bindings, Head(order), action, key),
                      Tail(order), action, key)

\* the orders in which the elements of a set can be listed
Orders(S) ==
    {o \in [1..Cardinality(S) -> S] : \A i, j \in DOMAIN o : i # j => o[i] # o[j]}

\* the orders in which `range bindings` can produce the keys that matter to
\* the move of an action: every key that holds the action, in any order,
\* and the new key, which the loop may or may not produce after it is added
\* (a round at a key that does not hold the action changes nothing)
VisitOrders(bindings, action, key) ==
    LET holders == {k \in DOMAIN bindings : FirstWithAction(bindings[k], action) # 0}
    IN Orders(holders) \cup Orders(holders \cup {key})

\* loadCustomBindings over the entries of config that remain in todo, the
\* map being ranged in any order: the tables it can leave
RECURSIVE LoadCustom(_, _, _)
LoadCustom(bindings, config, todo) ==
    IF todo = {} THEN {bindings}
    ELSE UNION {UNION {LoadCustom(MoveBindings(bindings, order, action, config[action]),
                                  config, todo \ {action}) :
                       order \in VisitOrders(bindings, action, config[action])} :
                action \in todo}

\* a nil config, or one without key bindings, is the empty map
loadCustomBindings(bindings, config) == LoadCustom(bindings, config, DOMAIN config)

\* NewKeyBindingManager(cfg): the managers it can return
NewKeyBindingManager(config) ==
    {[bindings |-> b, config |-> config] :
        b \in loadCustomBindings(initializeDefaultBindings, config)}

\* HandleKeyPress(key, currentView): the first binding of the key whose
\* context names the view
RECURSIVE FindBinding(_, _, _)
FindBinding(bindingList, i, currentView) ==
    IF i > Len(bindingList) THEN [action |-> "", handled |-> FALSE]
    ELSE IF currentView \in bindingList[i].Context
    THEN [action |-> bindingList[i].Action, handled |-> TRUE]
    ELSE FindBinding(bindingList, i + 1, currentView)

\* variant: the context of the bindings is not looked at
HandleKeyPress_AnyView(bindings, key, currentView) ==
    IF key \notin DOMAIN bindings \/ bindings[key] = <<>>
    THEN [action |-> "", handled |-> FALSE]
    ELSE [action |-> bindings[key][1].Action, handled |-> TRUE]

HandleKeyPress(bindings, key, currentView) ==
    IF key \notin DOMAIN bindings THEN [action |-> "", handled |-> FALSE]
    ELSE FindBinding(bindings[key], 1, currentView)

\* the keys the operating system or the terminal uses
systemKeys == {"ctrl+c", "ctrl+z", "ctrl+d"}

\* variant: a system key is refused whatever the action
ValidateKeyBinding_NoException(key, action) ==
    IF key = "" THEN <<"key cannot be empty">>
    ELSE IF action = "" THEN <<"action cannot be empty">>
    ELSE IF key \in systemKeys
    THEN <<"key " \o key \o " is reserved for system use">>
    ELSE <<>>

\* ValidateKeyBinding(key, action): nil <<>>, or the error
ValidateKeyBinding(key, action) ==
    IF key = "" THEN <<"key cannot be empty">>
    ELSE IF action = "" THEN <<"action cannot be empty">>
    ELSE IF key \in systemKeys /\ action # "quit" /\ action # "nav_page_down"
    THEN <<"key " \o key \o " is reserved for system use">>
    ELSE <<>>

\* ------------------------------------- specification: KeyBindingManager

\* most entries of ui.key_bindings in a configuration
MaxCustom == 2

\* most bindings AddCustomBinding adds to a manager
MaxAdded == 1

\* the actions and keys a configuration names: actions of the default table
\* and "stage", which the default table does not hold; free keys and keys
\* the default table binds
ConfigActions == {"quit", "help", "stage_file", "generate_message", "stage"}
ConfigKeys == {"x", "h", "ctrl+c"}

\* ui.key_bindings: a map from action to key; the empty map stands for a
\* nil config and for a config without key bindings
KeyBindingConfigs ==
    UNION {[acts -> ConfigKeys] :
           acts \in {a \in SUBSET ConfigActions : Cardinality(a) <= MaxCustom}}

\* the arguments AddCustomBinding is called with
AddedKeys == {"", "x", "ctrl+c", "ctrl+z", "ctrl+d"}
AddedActions == {"", "quit", "nav_page_down", "custom_help"}

\* the number of bindings of the table at the keys
RECURSIVE CountBindings(_, _)
CountBindings(bindings, keys) ==
    IF keys = {} THEN 0
    ELSE LET k == CHOOSE k \in keys : TRUE
         IN Len(bindings[k]) + CountBindings(bindings, keys \ {k})

\* AddCustomBinding(key, action, description, contexts)
AddCustomBinding ==
    /\ pc = "keys"
    /\ CountBindings(kbm.bindings, DOMAIN kbm.bindings) < Len(defaultBindings) + MaxAdded
    /\ \E key \in AddedKeys, action \in AddedActions :
          LET e == ValidateKeyBinding(key, action)
              binding == KeyBinding(key, action, {ViewModeStatus})
          IN /\ kbm' = IF e # <<>> THEN kbm
                       ELSE [kbm EXCEPT !.bindings = AppendBinding(@, key, binding)]
             /\ ret' = [name |-> "AddCustomBinding", key |-> key,
                        action |-> action, err |-> e]
    /\ UNCHANGED <<pc, output, files, content, binary, doc, diffs, disk, filePaths>>
    /\ UNCHANGED <<exit, err, facadeVars, envVars, model, cmds>>

\* after NewKeyBindingManager(cfg)
KeysInit ==
    /\ pc = "keys"
    /\ StatusIdle /\ BinaryIdle /\ DiffIdle /\ UntrackedIdle /\ FacadeIdle /\ EnvIdle
    /\ \E config \in KeyBindingConfigs : kbm \in NewKeyBindingManager(config)
    /\ ret = [name |-> "NewKeyBindingManager"]
    /\ model = <<>> /\ cmds = <<>>

KeysNext == AddCustomBinding
SpecKeys == KeysInit /\ [][KeysNext]_vars

\* ------------------------------------------------------------------ Model

\* NewDiffViewState()
NewDiffViewState ==
    [scrollOffset |-> 0, selectedFile |-> 0, showLineNumbers |-> TRUE,
     wrapLines |-> FALSE, showStats |-> TRUE, viewMode |-> "unified",
     isStaged |-> FALSE, currentCommit |-> ""]

\* NewLogViewState()
NewLogViewState == [scrollOffset |-> 0, showGraph |-> FALSE]

\* NewMainViewState(); expandedSections holds the keys the map has as true
NewMainViewState ==
    [showStagedSection |-> TRUE, showUnstagedSection |-> TRUE,
     showUntrackedSection |-> TRUE, expandedSections |-> {}]

\* NewModel(cfg, repo, llmClient), the key binding manager apart; selected
\* holds the indices the map has as true
NewModel ==
    [currentView |-> ViewModeStatus,
     mainViewState |-> NewMainViewState,
     diffViewState |-> NewDiffViewState,
     logViewState |-> NewLogViewState,
     height |-> 0, cursor |-> 0, selected |-> {},
     fileStatus |-> <<>>, commitHistory |-> <<>>, currentDiff |-> <<>>,
     statusMessage |-> "", errorMessage |-> "",
     loading |-> FALSE, loadingMessage |-> "",
     generatedMessage |-> ""]

\* a tea.Cmd the model returns: the function it names and what the closure
\* captured (a flag and a path or a commit hash); next names the command
\* tea.Sequence runs after it
TeaCmd(name, staged, arg) ==
    [name |-> name, staged |-> staged, arg |-> arg, next |-> ""]

\* what a handler returns: the model, the commands (tea.Batch gives two, nil
\* none) and whether it panicked on an index out of range
Returns(mdl, cmd) == [m |-> mdl, cmd |-> cmd, panic |-> FALSE]
Panics(mdl) == [m |-> mdl, cmd |-> <<>>, panic |-> TRUE]

\* variant: the status message is kept
switchView_KeepsStatus(mdl, view) ==
    [mdl EXCEPT !.currentView = view, !.cursor = 0, !.errorMessage = ""]

\* switchView(view)
switchView(mdl, view) ==
    [mdl EXCEPT !.currentView = view, !.cursor = 0,
                !.errorMessage = "", !.statusMessage = ""]

\* the files of the list that belong to a group, in the order of the list
RECURSIVE SelectFiles(_, _)
SelectFiles(fileStatus, group) ==
    IF fileStatus = <<>> THEN <<>>
    ELSE LET file == Head(fileStatus)
             g == IF file.Staged THEN "staged"
                  ELSE IF file.Status = "??" THEN "untracked"
                  ELSE "unstaged"
         IN (IF g = group THEN <<file>> ELSE <<>>)
            \o SelectFiles(Tail(fileStatus), group)

\* variant: every file that is not staged counts as unstaged
groupFiles_NoUntracked(fileStatus) ==
    [staged |-> SelectFiles(fileStatus, "staged"),
     unstaged |-> SelectFiles(fileStatus, "unstaged")
                      \o SelectFiles(fileStatus, "untracked"),
     untracked |-> <<>>]

\* groupFiles()
groupFiles(fileStatus) ==
    [staged |-> SelectFiles(fileStatus, "staged"),
     unstaged |-> SelectFiles(fileStatus, "unstaged"),
     untracked |-> SelectFiles(fileStatus, "untracked")]

\* getCurrentFile(): <<>> is nil, else the file in a one-element sequence
getCurrentFile(mdl) ==
    LET g == groupFiles(mdl.fileStatus)
        mv == mdl.mainViewState
        c == mdl.cursor
        n1 == IF mv.showStagedSection /\ Len(g.staged) > 0 THEN Len(g.staged) ELSE 0
        n2 == IF mv.showUnstagedSection /\ Len(g.unstaged) > 0 THEN Len(g.unstaged) ELSE 0
    IN IF Len(mdl.fileStatus) = 0 THEN <<>>
       ELSE IF n1 > 0 /\ c >= 0 /\ c < n1 THEN <<g.staged[c + 1]>>
       ELSE IF n2 > 0 /\ c >= n1 /\ c < n1 + n2 THEN <<g.unstaged[c - n1 + 1]>>
       ELSE IF /\ mv.showUntrackedSection /\ Len(g.untracked) > 0
               /\ c >= n1 + n2 /\ c < n1 + n2 + Len(g.untracked)
       THEN <<g.untracked[c - n1 - n2 + 1]>>
       ELSE <<>>

\* Go's integer division, which truncates toward zero
GoDiv(a, b) == IF a >= 0 THEN a \div b ELSE 0 - ((0 - a) \div b)

\* getMaxVisibleLines() and getMaxVisibleCommits()
getMaxVisibleLines(mdl) == mdl.height - 8
getMaxVisibleCommits(mdl) == GoDiv(mdl.height - 6, 4)

\* the index is in the range of currentDiff
DiffIndexOk(mdl) ==
    mdl.diffViewState.selectedFile >= 0
        /\ mdl.diffViewState.selectedFile < Len(mdl.currentDiff)

\* getMaxDiffScroll(), where the selected file is in range
getMaxDiffScroll(mdl) ==
    IF Len(mdl.currentDiff) = 0 THEN 0
    ELSE LET diff == mdl.currentDiff[mdl.diffViewState.selectedFile + 1]
             lines == Split(diff.Content)
             maxVisible == getMaxVisibleLines(mdl)
         IN IF Len(lines) <= maxVisible THEN 0 ELSE Len(lines) - maxVisible

\* getMaxDiffScroll() panics when currentDiff[selectedFile] is out of range
ScrollPanics(mdl) == Len(mdl.currentDiff) # 0 /\ ~DiffIndexOk(mdl)

\* ------------------------------------- what the repository shows the model

\* The strings of the user interface (keys, actions, messages, paths,
\* hashes) are TLA+ strings: the code compares and concatenates them.  The
\* content of a diff, which the code splits into lines, is a sequence of
\* characters.

\* files as GetStatus returns them: one staged, one modified, one untracked
FileStaged == [Path |-> "a.go", Status |-> "M ", Staged |-> TRUE, Modified |-> FALSE]
FileModified == [Path |-> "b.go", Status |-> " M", Staged |-> FALSE, Modified |-> TRUE]
FileUntracked == [Path |-> "c.go", Status |-> "??", Staged |-> FALSE, Modified |-> FALSE]

\* the file lists a refresh of the status can bring
TuiStatusLists == {<<>>, <<FileStaged, FileModified, FileUntracked>>}

\* commits as GetCommitHistory returns them, ShortHash being Hash[:8]
CommitOf(hash, short) ==
    [Hash |-> hash, ShortHash |-> short, Author |-> "t", Subject |-> "m", Body |-> ""]
TuiCommits == <<CommitOf("2222222200", "22222222"), CommitOf("1111111100", "11111111")>>

\* the histories a refresh of the log can bring
TuiHistories == {<<>>, TuiCommits}

\* commitHash[:8] of the hash of a commit
ShortOf(hash) ==
    LET at == {i \in DOMAIN TuiCommits : TuiCommits[i].Hash = hash}
    IN TuiCommits[CHOOSE i \in at : TRUE].ShortHash

\* n lines "+" joined by newlines: a content that Split cuts into n lines
RECURSIVE ContentOfLines(_)
ContentOfLines(n) ==
    IF n <= 1 THEN <<"+">> ELSE <<"+", LF>> \o ContentOfLines(n - 1)

\* a DiffInfo of a file with a content of n lines
DiffOf(path, n) ==
    [FilePath |-> path, Status |-> "M", Additions |-> n, Deletions |-> 0,
     Content |-> ContentOfLines(n), IsBinary |-> FALSE]

\* the diff lists a refresh of the diff can bring
TuiDiffLists == {<<>>, <<DiffOf("a.go", 4)>>, <<DiffOf("a.go", 1), DiffOf("b.go", 4)>>}

\* the heights the terminal reports
TuiHeights == {10}

\* the text of the error a failing repository call returns
RepoError == "git command failed: exit status 128"

\* the message and the confidence (in thousandths) the LLM returns
LLMMessage == "feat: add new feature"
LLMConfidence == 900

\* ------------------------------------------------- navigation handlers

\* rows a page key moves the cursor of the status view
StatusPageSize == 10

\* handleNavUp()
handleNavUp(mdl) ==
    CASE mdl.currentView = ViewModeStatus ->
            Returns(IF mdl.cursor > 0 THEN [mdl EXCEPT !.cursor = @ - 1] ELSE mdl, <<>>)
      [] mdl.currentView = ViewModeDiff ->
            Returns(IF mdl.diffViewState.scrollOffset > 0
                    THEN [mdl EXCEPT !.diffViewState.scrollOffset = @ - 1]
                    ELSE mdl, <<>>)
      [] mdl.currentView = ViewModeLog ->
            Returns(IF mdl.cursor > 0
                    THEN LET c == mdl.cursor - 1 IN
                         [mdl EXCEPT !.cursor = c,
                                     !.logViewState.scrollOffset =
                                         IF c < @ THEN c ELSE @]
                    ELSE mdl, <<>>)
      [] OTHER -> Returns(mdl, <<>>)

\* handleNavDown()
handleNavDown(mdl) ==
    CASE mdl.currentView = ViewModeStatus ->
            Returns(IF mdl.cursor < Len(mdl.fileStatus) - 1
                    THEN [mdl EXCEPT !.cursor = @ + 1] ELSE mdl, <<>>)
      [] mdl.currentView = ViewModeDiff ->
            IF ScrollPanics(mdl) THEN Panics(mdl)
            ELSE Returns(IF mdl.diffViewState.scrollOffset < getMaxDiffScroll(mdl)
                         THEN [mdl EXCEPT !.diffViewState.scrollOffset = @ + 1]
                         ELSE mdl, <<>>)
      [] mdl.currentView = ViewModeLog ->
            Returns(IF mdl.cursor < Len(mdl.commitHistory) - 1
                    THEN LET c == mdl.cursor + 1
                             maxVisible == getMaxVisibleCommits(mdl)
                         IN [mdl EXCEPT !.cursor = c,
                                        !.logViewState.scrollOffset =
                                            IF c >= @ + maxVisible
                                            THEN c - maxVisible + 1 ELSE @]
                    ELSE mdl, <<>>)
      [] OTHER -> Returns(mdl, <<>>)

\* handleNavHome()
handleNavHome(mdl) ==
    CASE mdl.currentView = ViewModeStatus -> Returns([mdl EXCEPT !.cursor = 0], <<>>)
      [] mdl.currentView = ViewModeDiff ->
            Returns([mdl EXCEPT !.diffViewState.scrollOffset = 0], <<>>)
      [] mdl.currentView = ViewModeLog ->
            Returns([mdl EXCEPT !.cursor = 0, !.logViewState.scrollOffset = 0], <<>>)
      [] OTHER -> Returns(mdl, <<>>)

\* handleNavEnd()
handleNavEnd(mdl) ==
    CASE mdl.currentView = ViewModeStatus ->
            Returns(IF Len(mdl.fileStatus) > 0
                    THEN [mdl EXCEPT !.cursor = Len(mdl.fileStatus) - 1]
                    ELSE mdl, <<>>)
      [] mdl.currentView = ViewModeDiff ->
            IF ScrollPanics(mdl) THEN Panics(mdl)
            ELSE Returns([mdl EXCEPT !.diffViewState.scrollOffset = getMaxDiffScroll(mdl)], <<>>)
      [] mdl.currentView = ViewModeLog ->
            Returns(IF Len(mdl.commitHistory) > 0
                    THEN LET off == Len(mdl.commitHistory) - getMaxVisibleCommits(mdl)
                         IN [mdl EXCEPT !.cursor = Len(mdl.commitHistory) - 1,
                                        !.logViewState.scrollOffset =
                                            IF off < 0 THEN 0 ELSE off]
                    ELSE mdl, <<>>)
      [] OTHER -> Returns(mdl, <<>>)

\* handleNavPageUp()
handleNavPageUp(mdl) ==
    CASE mdl.currentView = ViewModeStatus ->
            LET c == mdl.cursor - StatusPageSize
            IN Returns([mdl EXCEPT !.cursor = IF c < 0 THEN 0 ELSE c], <<>>)
      [] mdl.currentView = ViewModeDiff ->
            LET off == mdl.diffViewState.scrollOffset - GoDiv(getMaxVisibleLines(mdl), 2)
            IN Returns([mdl EXCEPT !.diffViewState.scrollOffset =
                                       IF off < 0 THEN 0 ELSE off], <<>>)
      [] mdl.currentView = ViewModeLog ->
            LET c == mdl.cursor - getMaxVisibleCommits(mdl)
                c0 == IF c < 0 THEN 0 ELSE c
            IN Returns([mdl EXCEPT !.cursor = c0, !.logViewState.scrollOffset = c0], <<>>)
      [] OTHER -> Returns(mdl, <<>>)

\* handleNavPageDown()
handleNavPageDown(mdl) ==
    CASE mdl.currentView = ViewModeStatus ->
            LET c == mdl.cursor + StatusPageSize
            IN Returns([mdl EXCEPT !.cursor =
                            IF c >= Len(mdl.fileStatus)
                            THEN Len(mdl.fileStatus) - 1 ELSE c], <<>>)
      [] mdl.currentView = ViewModeDiff ->
            IF ScrollPanics(mdl) THEN Panics(mdl)
            ELSE LET maxScroll == getMaxDiffScroll(mdl)
                     off == mdl.diffViewState.scrollOffset
                                + GoDiv(getMaxVisibleLines(mdl), 2)
                 IN Returns([mdl EXCEPT !.diffViewState.scrollOffset =
                                 IF off > maxScroll THEN maxScroll ELSE off], <<>>)
      [] mdl.currentView = ViewModeLog ->
            LET maxVisible == getMaxVisibleCommits(mdl)
                c == mdl.cursor + maxVisible
                c1 == IF c >= Len(mdl.commitHistory)
                      THEN Len(mdl.commitHistory) - 1 ELSE c
            IN Returns([mdl EXCEPT !.cursor = c1,
                                   !.logViewState.scrollOffset =
                                       IF c1 >= @ + maxVisible
                                       THEN c1 - maxVisible + 1 ELSE @], <<>>)
      [] OTHER -> Returns(mdl, <<>>)

\* handleDiffPrevFile() and handleDiffNextFile()
handleDiffPrevFile(mdl) ==
    Returns(IF Len(mdl.currentDiff) > 1 /\ mdl.diffViewState.selectedFile > 0
            THEN [mdl EXCEPT !.diffViewState.selectedFile = @ - 1,
                             !.diffViewState.scrollOffset = 0]
            ELSE mdl, <<>>)
handleDiffNextFile(mdl) ==
    Returns(IF /\ Len(mdl.currentDiff) > 1
               /\ mdl.diffViewState.selectedFile < Len(mdl.currentDiff) - 1
            THEN [mdl EXCEPT !.diffViewState.selectedFile = @ + 1,
                             !.diffViewState.scrollOffset = 0]
            ELSE mdl, <<>>)

\* handleShowCommitDetails(): commitHistory[cursor] panics on a cursor below 0
handleShowCommitDetails(mdl) ==
    IF mdl.cursor < Len(mdl.commitHistory)
    THEN IF mdl.cursor < 0 THEN Panics(mdl)
         ELSE Returns(switchView(mdl, ViewModeDiff),
                      <<TeaCmd("showCommitDiff", FALSE,
                               mdl.commitHistory[mdl.cursor + 1].Hash)>>)
    ELSE Returns(mdl, <<>>)

\* handleCopyCommitHash()
handleCopyCommitHash(mdl) ==
    IF mdl.cursor < Len(mdl.commitHistory)
    THEN IF mdl.cursor < 0 THEN Panics(mdl)
         ELSE Returns([mdl EXCEPT !.statusMessage =
                          "Commit hash copied: "
                              \o mdl.commitHistory[mdl.cursor + 1].ShortHash], <<>>)
    ELSE Returns(mdl, <<>>)

\* cycleDiffViewMode()
cycleDiffViewMode(viewMode) ==
    CASE viewMode = "unified" -> "side-by-side"
      [] viewMode = "side-by-side" -> "word-diff"
      [] viewMode = "word-diff" -> "unified"
      [] OTHER -> viewMode

\* ------------------------------------------------- status view handlers

\* a command whose closure only returns errorMsg{error: text}
ErrorCmd(text) == TeaCmd("errorMsg", FALSE, text)

\* stageCurrentFile(), unstageCurrentFile() and toggleCurrentFile()
stageCurrentFile(mdl) ==
    LET file == getCurrentFile(mdl) IN
    IF file = <<>> THEN ErrorCmd("No file selected")
    ELSE IF file[1].Staged THEN ErrorCmd("File is already staged")
    ELSE TeaCmd("stageCurrentFile", FALSE, file[1].Path)
unstageCurrentFile(mdl) ==
    LET file == getCurrentFile(mdl) IN
    IF file = <<>> THEN ErrorCmd("No file selected")
    ELSE IF ~file[1].Staged THEN ErrorCmd("File is not staged")
    ELSE TeaCmd("unstageCurrentFile", TRUE, file[1].Path)
toggleCurrentFile(mdl) ==
    LET file == getCurrentFile(mdl) IN
    IF file = <<>> THEN ErrorCmd("No file selected")
    ELSE IF file[1].Staged THEN unstageCurrentFile(mdl)
    ELSE stageCurrentFile(mdl)

\* resetCurrentFile()
resetCurrentFile(mdl) ==
    LET file == getCurrentFile(mdl) IN
    IF file = <<>> THEN ErrorCmd("No file selected")
    ELSE IF file[1].Status = "??" THEN ErrorCmd("Cannot reset untracked file")
    ELSE TeaCmd("resetCurrentFile", file[1].Staged, file[1].Path)

\* discardCurrentFileChanges()
discardCurrentFileChanges(mdl) ==
    LET file == getCurrentFile(mdl) IN
    IF file = <<>> THEN ErrorCmd("No file selected")
    ELSE TeaCmd("discardCurrentFileChanges", file[1].Staged, file[1].Path)

\* toggleCurrentSection(): the section the cursor is in
toggleCurrentSection(mdl) ==
    LET g == groupFiles(mdl.fileStatus)
        sectionKey == IF mdl.cursor < Len(g.staged) THEN "staged_changes"
                      ELSE IF mdl.cursor < Len(g.staged) + Len(g.unstaged)
                      THEN "unstaged_changes"
                      ELSE "untracked_files"
    IN [mdl EXCEPT !.mainViewState.expandedSections =
            IF sectionKey \in @ THEN @ \ {sectionKey} ELSE @ \cup {sectionKey}]

\* handleQuickCommit()
handleQuickCommit(mdl) ==
    IF mdl.generatedMessage # ""
    THEN Returns(mdl, <<TeaCmd("commitStagedChanges", FALSE, "")>>)
    ELSE Returns([mdl EXCEPT !.loading = TRUE,
                             !.loadingMessage = "Generating commit message..."],
                 <<[TeaCmd("generateCommitMessage", FALSE, "") EXCEPT !.next = "c"]>>)

\* the two commands of tea.Batch(m.refreshStatus(), m.refreshCommitHistory())
RefreshBatch ==
    <<TeaCmd("refreshStatus", FALSE, ""), TeaCmd("refreshCommitHistory", FALSE, "")>>

\* refreshDiff(staged, files...), for no file ("") or one
refreshDiff(staged, file) == TeaCmd("refreshDiff", staged, file)

\* ---------------------------------------------------------- executeAction

\* the default branch of executeAction
UnknownAction(mdl, action) ==
    Returns([mdl EXCEPT !.errorMessage = "Unknown action: " \o action], <<>>)

\* executeAction(action)
executeAction(mdl, action) ==
    CASE action = "quit" -> Returns(mdl, <<TeaCmd("tea.Quit", FALSE, "")>>)
      [] action = "help" -> Returns(switchView(mdl, ViewModeHelp), <<>>)
      [] action = "refresh" -> Returns(mdl, RefreshBatch)
      [] action = "status" -> Returns(switchView(mdl, ViewModeStatus), <<>>)
      [] action = "diff" ->
            LET file == getCurrentFile(mdl) IN
            Returns(switchView(mdl, ViewModeDiff),
                    <<IF file # <<>> THEN refreshDiff(file[1].Staged, file[1].Path)
                      ELSE refreshDiff(FALSE, "")>>)
      [] action = "log" -> Returns(switchView(mdl, ViewModeLog), <<>>)
      [] action = "nav_up" -> handleNavUp(mdl)
      [] action = "nav_down" -> handleNavDown(mdl)
      [] action = "nav_home" -> handleNavHome(mdl)
      [] action = "nav_end" -> handleNavEnd(mdl)
      [] action = "nav_page_up" -> handleNavPageUp(mdl)
      [] action = "nav_page_down" -> handleNavPageDown(mdl)
      [] action = "toggle_file" -> Returns(mdl, <<toggleCurrentFile(mdl)>>)
      [] action = "stage_file" -> Returns(mdl, <<stageCurrentFile(mdl)>>)
      [] action = "unstage_file" -> Returns(mdl, <<unstageCurrentFile(mdl)>>)
      [] action = "stage_all" -> Returns(mdl, <<TeaCmd("stageAllFiles", FALSE, "")>>)
      [] action = "unstage_all" -> Returns(mdl, <<TeaCmd("unstageAllFiles", FALSE, "")>>)
      [] action = "commit" -> Returns(mdl, <<TeaCmd("commitStagedChanges", FALSE, "")>>)
      [] action = "quick_commit" -> handleQuickCommit(mdl)
      [] action = "generate_message" ->
            Returns([mdl EXCEPT !.loading = TRUE,
                                !.loadingMessage = "Generating commit message..."],
                    <<TeaCmd("generateCommitMessage", FALSE, "")>>)
      [] action = "regenerate_message" ->
            Returns([mdl EXCEPT !.generatedMessage = "", !.loading = TRUE,
                                !.loadingMessage = "Regenerating commit message..."],
                    <<TeaCmd("generateCommitMessage", FALSE, "")>>)
      [] action = "reset_file" -> Returns(mdl, <<resetCurrentFile(mdl)>>)
      [] action = "toggle_section" -> Returns(toggleCurrentSection(mdl), <<>>)
      [] action = "select_all" ->
            Returns([mdl EXCEPT !.selected = @ \cup 0..(Len(mdl.fileStatus) - 1)], <<>>)
      [] action = "clear_selection" -> Returns([mdl EXCEPT !.selected = {}], <<>>)
      [] action = "diff_prev_file" -> handleDiffPrevFile(mdl)
      [] action = "diff_next_file" -> handleDiffNextFile(mdl)
      [] action = "toggle_line_numbers" ->
            Returns([mdl EXCEPT !.diffViewState.showLineNumbers = ~@], <<>>)
      [] action = "toggle_line_wrap" ->
            Returns([mdl EXCEPT !.diffViewState.wrapLines = ~@], <<>>)
      [] action = "cycle_diff_mode" ->
            Returns([mdl EXCEPT !.diffViewState.viewMode = cycleDiffViewMode(@)], <<>>)
      [] action = "toggle_stats" ->
            Returns([mdl EXCEPT !.diffViewState.showStats = ~@], <<>>)
      [] action = "toggle_staged_unstaged" ->
            IF Len(mdl.currentDiff) > 0
            THEN IF ~DiffIndexOk(mdl) THEN Panics(mdl)
                 ELSE Returns(mdl, <<refreshDiff(~mdl.diffViewState.isStaged,
                          mdl.currentDiff[mdl.diffViewState.selectedFile + 1].FilePath)>>)
            ELSE Returns(mdl, <<>>)
      [] action = "show_staged_diff" ->
            LET file == getCurrentFile(mdl) IN
            Returns(switchView(mdl, ViewModeDiff),
                    <<IF file # <<>> THEN refreshDiff(TRUE, file[1].Path)
                      ELSE refreshDiff(TRUE, "")>>)
      [] action = "show_commit_details" -> handleShowCommitDetails(mdl)
      [] action = "copy_commit_hash" -> handleCopyCommitHash(mdl)
      [] action = "toggle_graph" ->
            Returns([mdl EXCEPT !.logViewState.showGraph = ~@], <<>>)
      [] action = "return_to_status" -> Returns(switchView(mdl, ViewModeStatus), <<>>)
      [] OTHER -> UnknownAction(mdl, action)

\* handleUnifiedKeyPress(msg), key being msg.String()
handleUnifiedKeyPress(mdl, bindings, key) ==
    LET h == HandleKeyPress(bindings, key, mdl.currentView) IN
    IF ~h.handled THEN Returns(mdl, <<>>) ELSE executeAction(mdl, h.action)

\* ------------------------------------------------------------------ Update

\* fmt's %d of a natural number, as a string
RECURSIVE Decimal(_)
Decimal(n) == IF n < 10 THEN Digit(n) ELSE Decimal(n \div 10) \o Digit(n % 10)

\* fmt's %.1f of confidence*100, the confidence counted in thousandths
Percent(confidence) == Decimal(confidence \div 10) \o "." \o Digit(confidence % 10)

\* a tea.Msg of the model: its type and its fields (files, commits or diffs
\* in list, a text, a flag, a confidence)
Msg(type, list, text, staged, confidence) ==
    [type |-> type, list |-> list, text |-> text, staged |-> staged,
     confidence |-> confidence]
ErrorMsg(text) == Msg("errorMsg", <<>>, text, FALSE, 0)
OperationCompletedMsg(text) == Msg("operationCompletedMsg", <<>>, text, FALSE, 0)

\* variant: an error leaves the loading flag as it is
ErrorReported_KeepsLoading(mdl, text) == [mdl EXCEPT !.errorMessage = text]

\* the errorMsg branch of Update
ErrorReported(mdl, text) == [mdl EXCEPT !.errorMessage = text, !.loading = FALSE]

\* Update(msg) for the messages of the model's own commands
Update(mdl, msg) ==
    CASE msg.type = "statusRefreshedMsg" ->
            Returns([mdl EXCEPT !.fileStatus = msg.list, !.loading = FALSE,
                                !.errorMessage = ""], <<>>)
      [] msg.type = "commitHistoryRefreshedMsg" ->
            Returns([mdl EXCEPT !.commitHistory = msg.list], <<>>)
      [] msg.type = "diffRefreshedMsg" ->
            Returns([mdl EXCEPT !.currentDiff = msg.list,
                                !.diffViewState.isStaged = msg.staged,
                                !.diffViewState.currentCommit = ""], <<>>)
      [] msg.type = "commitDiffRefreshedMsg" ->
            Returns([mdl EXCEPT !.currentDiff = msg.list,
                                !.diffViewState.isStaged = FALSE,
                                !.diffViewState.selectedFile = 0,
                                !.diffViewState.scrollOffset = 0,
                                !.diffViewState.currentCommit = msg.text,
                                !.statusMessage = "Showing diff for commit: "
                                    \o ShortOf(msg.text)], <<>>)
      [] msg.type = "errorMsg" -> Returns(ErrorReported(mdl, msg.text), <<>>)
      [] msg.type = "commitMessageGeneratedMsg" ->
            Returns([mdl EXCEPT !.generatedMessage = msg.text, !.loading = FALSE,
                                !.statusMessage =
                                    "Generated commit message (confidence: "
                                        \o Percent(msg.confidence) \o "%)"], <<>>)
      [] msg.type = "operationCompletedMsg" ->
            Returns([mdl EXCEPT !.statusMessage = msg.text, !.loading = FALSE],
                    RefreshBatch)
      [] msg.type = "autoGenerateAndCommitMsg" ->
            Returns([mdl EXCEPT !.loading = TRUE,
                                !.loadingMessage =
                                    "Generating commit message and committing..."],
                    <<TeaCmd("generateCommitMessageForAutoCommit", FALSE, "")>>)
      [] msg.type = "commitAfterGenerationMsg" ->
            Returns([mdl EXCEPT !.generatedMessage = msg.text, !.loading = FALSE],
                    <<TeaCmd("performAutoCommit", FALSE, "")>>)
      [] OTHER -> Returns(mdl, <<>>)

\* ----------------------------------------------- the closures of commands

\* what a closure leaves: the model (closures write generatedMessage) and
\* the message it returns
Outcome(mdl, msg) == [m |-> mdl, msg |-> msg]

\* a closure of one repository call: it fails, or completes with the text
RepoCall(mdl, failure, done) ==
    {Outcome(mdl, ErrorMsg(failure \o RepoError)),
     Outcome(mdl, OperationCompletedMsg(done))}

\* the closure of a command, run on the model as it is then: its outcomes
Outcomes(mdl, cmd) ==
    CASE cmd.name = "errorMsg" -> {Outcome(mdl, ErrorMsg(cmd.arg))}
      [] cmd.name = "refreshStatus" ->
            {Outcome(mdl, ErrorMsg(RepoError))}
                \cup {Outcome(mdl, Msg("statusRefreshedMsg", fs, "", FALSE, 0)) :
                      fs \in TuiStatusLists}
      [] cmd.name = "refreshCommitHistory" ->
            {Outcome(mdl, ErrorMsg(RepoError))}
                \cup {Outcome(mdl, Msg("commitHistoryRefreshedMsg", cs, "", FALSE, 0)) :
                      cs \in TuiHistories}
      [] cmd.name = "refreshDiff" ->
            {Outcome(mdl, ErrorMsg(RepoError))}
                \cup {Outcome(mdl, Msg("diffRefreshedMsg", ds, "", cmd.staged, 0)) :
                      ds \in TuiDiffLists}
      [] cmd.name = "showCommitDiff" ->
            {Outcome(mdl, ErrorMsg("Failed to get commit diff: " \o RepoError))}
                \cup {Outcome(mdl, Msg("commitDiffRefreshedMsg", ds, cmd.arg, FALSE, 0)) :
                      ds \in TuiDiffLists}
      [] cmd.name = "stageCurrentFile" ->
            RepoCall(mdl, "Failed to stage file: ", "Staged: " \o cmd.arg)
      [] cmd.name = "unstageCurrentFile" ->
            RepoCall(mdl, "Failed to unstage file: ", "Unstaged: " \o cmd.arg)
      [] cmd.name = "stageAllFiles" ->
            RepoCall(mdl, "Failed to stage all files: ", "Staged all files")
      [] cmd.name = "unstageAllFiles" ->
            LET staged == groupFiles(mdl.fileStatus).staged IN
            IF Len(staged) = 0
            THEN {Outcome(mdl, ErrorMsg("No staged files to unstage"))}
            ELSE RepoCall(mdl, "Failed to unstage files: ",
                          "Unstaged " \o Decimal(Len(staged)) \o " files")
      [] cmd.name = "resetCurrentFile" ->
            RepoCall(mdl, "Failed to reset file: ", "Reset: " \o cmd.arg)
      [] cmd.name = "commitStagedChanges" ->
            {Outcome(mdl, ErrorMsg("Failed to check staged changes: " \o RepoError)),
             Outcome(mdl, ErrorMsg("No staged changes to commit"))}
                \cup IF mdl.generatedMessage = ""
                     THEN {Outcome(mdl, Msg("autoGenerateAndCommitMsg", <<>>, "", FALSE, 0))}
                     ELSE {Outcome(mdl, ErrorMsg("Failed to commit: " \o RepoError)),
                           Outcome([mdl EXCEPT !.generatedMessage = ""],
                                   OperationCompletedMsg("Commit created successfully"))}
      [] cmd.name = "generateCommitMessage" ->
            {Outcome(mdl, ErrorMsg("Failed to get diff: " \o RepoError)),
             Outcome(mdl, ErrorMsg("Failed to get status: " \o RepoError)),
             Outcome(mdl, ErrorMsg("No staged changes to generate commit message for")),
             Outcome(mdl, ErrorMsg("Failed to generate commit message: " \o RepoError)),
             Outcome(mdl, Msg("commitMessageGeneratedMsg", <<>>, LLMMessage, FALSE,
                              LLMConfidence))}
      [] cmd.name = "generateCommitMessageForAutoCommit" ->
            {Outcome(mdl, ErrorMsg("Failed to get diff: " \o RepoError)),
             Outcome(mdl, ErrorMsg("No staged changes to generate commit message for")),
             Outcome(mdl, ErrorMsg("Failed to generate commit message: " \o RepoError)),
             Outcome(mdl, Msg("commitAfterGenerationMsg", <<>>, LLMMessage, FALSE,
                              LLMConfidence))}
      [] cmd.name = "performAutoCommit" ->
            {Outcome(mdl, ErrorMsg("Failed to commit: " \o RepoError)),
             Outcome([mdl EXCEPT !.generatedMessage = ""],
                     OperationCompletedMsg("Auto-commit completed successfully"))}

\* -------------------------------------------------------------------- View

\* s[start:end] of getVisibleLines and getVisibleCommits panics: start is
\* below the length, and negative or above the end the code computes
SlicePanics(start, maxVisible, length) ==
    LET end == IF start + maxVisible > length THEN length ELSE start + maxVisible
    IN start < length /\ (start < 0 \/ end < start)

\* the keys of the sections renderEnhancedStatusView renders
RenderedSections(mdl) ==
    LET g == groupFiles(mdl.fileStatus)
        mv == mdl.mainViewState
    IN IF Len(mdl.fileStatus) = 0 THEN {}
       ELSE (IF mv.showStagedSection /\ Len(g.staged) > 0
             THEN {"staged_changes"} ELSE {})
            \cup (IF mv.showUnstagedSection /\ Len(g.unstaged) > 0
                  THEN {"unstaged_changes"} ELSE {})
            \cup (IF mv.showUntrackedSection /\ Len(g.untracked) > 0
                  THEN {"untracked_files"} ELSE {})

\* renderEnhancedDiffView() panics: in renderDiffHeader on the index of the
\* selected file, or in getVisibleLines on the slice of the lines
DiffViewPanics(mdl) ==
    /\ Len(mdl.currentDiff) > 0
    /\ \/ ~DiffIndexOk(mdl)
       \/ LET diff == mdl.currentDiff[mdl.diffViewState.selectedFile + 1] IN
          /\ ~diff.IsBinary
          /\ SlicePanics(mdl.diffViewState.scrollOffset, getMaxVisibleLines(mdl),
                         Len(Split(diff.Content)))

\* renderEnhancedLogView() panics in getVisibleCommits
LogViewPanics(mdl) ==
    /\ Len(mdl.commitHistory) > 0
    /\ SlicePanics(mdl.logViewState.scrollOffset, getMaxVisibleCommits(mdl),
                   Len(mdl.commitHistory))

\* View(): the model after the render (renderFileSection writes true into
\* expandedSections for a section it finds collapsed, and lists its files),
\* the sections whose files the render lists, and whether it panicked.
\* WindowSizeMsg sets width and height together, height stands for both.
View(mdl) ==
    IF mdl.height = 0 THEN [m |-> mdl, listed |-> {}, panic |-> FALSE]
    ELSE IF mdl.currentView = ViewModeDiff
    THEN [m |-> mdl, listed |-> {}, panic |-> DiffViewPanics(mdl)]
    ELSE IF mdl.currentView = ViewModeLog
    THEN [m |-> mdl, listed |-> {}, panic |-> LogViewPanics(mdl)]
    ELSE IF mdl.currentView = ViewModeHelp
    THEN [m |-> mdl, listed |-> {}, panic |-> FALSE]
    ELSE LET sections == RenderedSections(mdl) IN
         [m |-> [mdl EXCEPT !.mainViewState.expandedSections = @ \cup sections],
          listed |-> sections, panic |-> FALSE]

\* the program renders the model after every Update that did not panic
Rendered(r) ==
    IF r.panic THEN r
    ELSE LET v == View(r.m) IN [m |-> v.m, cmd |-> r.cmd, panic |-> v.panic]

\* ------------------------------------------------ specification: the TUI

\* most key presses of a session
MaxKeys == 2

\* the keys the user presses: those of the default table but "any", which
\* no key of a keyboard sends, and two keys the table does not hold
PressedKeys ==
    ({defaultBindings[i].Key : i \in DOMAIN defaultBindings} \ {"any"})
        \cup {"x", "esc"}

\* the commands in flight with those of a handler added
RECURSIVE Issue(_, _)
Issue(bag, cmd) ==
    IF cmd = <<>> THEN bag
    ELSE Issue(bag (+) SetToBag({Head(cmd)}), Tail(cmd))

\* what is recorded of the last message the program handled
Handled(name, key, h, presses) ==
    [name |-> name, key |-> key, action |-> h.action, handled |-> h.handled,
     presses |-> presses]

\* Update(tea.KeyMsg): the key is handled on the model, which is rendered;
\* bag holds the other commands in flight
KeyMsg(key, bag, presses) ==
    LET r == Rendered(handleUnifiedKeyPress(model, kbm.bindings, key)) IN
    /\ model' = r.m
    /\ cmds' = Issue(bag, r.cmd)
    /\ pc' = IF r.panic THEN "panic" ELSE pc
    /\ ret' = Handled("KeyMsg", key,
                      HandleKeyPress(kbm.bindings, key, model.currentView), presses)

\* the user presses a key, once the commands in flight have ended
KeyPress ==
    /\ pc = "tui"
    /\ ret.presses < MaxKeys
    /\ cmds = EmptyBag
    /\ \E key \in PressedKeys : KeyMsg(key, cmds, ret.presses + 1)
    /\ UNCHANGED <<output, files, content, binary, doc, diffs, disk, filePaths>>
    /\ UNCHANGED <<exit, err, facadeVars, envVars, kbm>>

\* the terminal reports its size: Update(tea.WindowSizeMsg)
WindowSize ==
    /\ pc = "tui"
    /\ \E height \in TuiHeights \ {model.height} :
          LET r == Rendered(Returns([model EXCEPT !.height = height], <<>>)) IN
          /\ model' = r.m
          /\ pc' = IF r.panic THEN "panic" ELSE pc
    /\ ret' = Handled("WindowSizeMsg", "", [action |-> "", handled |-> FALSE],
                      ret.presses)
    /\ UNCHANGED <<output, files, content, binary, doc, diffs, disk, filePaths>>
    /\ UNCHANGED <<exit, err, facadeVars, envVars, kbm, cmds>>

\* a command in flight ends: tea.Quit ends the program, the key of a
\* tea.Sequence is handled, and every other closure runs and its message
\* goes through Update
Deliver ==
    /\ pc = "tui"
    /\ \E cmd \in BagToSet(cmds) :
          LET rest == cmds (-) SetToBag({cmd}) IN
          IF cmd.name = "tea.Quit"
          THEN /\ pc' = "quit" /\ cmds' = rest /\ model' = model
               /\ ret' = Handled("tea.QuitMsg", "", [action |-> "", handled |-> FALSE],
                                 ret.presses)
          ELSE IF cmd.name = "KeyMsg"
          THEN KeyMsg(cmd.arg, rest, ret.presses)
          ELSE \E o \in Outcomes(model, cmd) :
                  LET r == Rendered(Update(o.m, o.msg))
                      then == IF cmd.next = "" THEN <<>>
                              ELSE <<TeaCmd("KeyMsg", FALSE, cmd.next)>>
                  IN /\ model' = r.m
                     /\ cmds' = Issue(rest, then \o r.cmd)
                     /\ pc' = IF r.panic THEN "panic" ELSE pc
                     /\ ret' = Handled(o.msg.type, "",
                                       [action |-> "", handled |-> FALSE], ret.presses)
    /\ UNCHANGED <<output, files, content, binary, doc, diffs, disk, filePaths>>
    /\ UNCHANGED <<exit, err, facadeVars, envVars, kbm>>

\* after NewModel(cfg, repo, llmClient) on a configuration without key
\* bindings (config.Default()) and Init(), whose two refresh commands are in
\* flight
TuiInit ==
    /\ pc = "tui"
    /\ StatusIdle /\ BinaryIdle /\ DiffIdle /\ UntrackedIdle /\ FacadeIdle /\ EnvIdle
    /\ kbm \in NewKeyBindingManager(<<>>)
    /\ model = NewModel
    /\ cmds = Issue(EmptyBag, RefreshBatch)
    /\ ret = Handled("Init", "", [action |-> "", handled |-> FALSE], 0)

TuiNext == KeyPress \/ WindowSize \/ Deliver
SpecTui == TuiInit /\ [][TuiNext]_vars

\* ------------------------------------------------ specification: groupFiles

\* longest file list
MaxFiles == 3

\* a FileStatus as GetStatus builds it from the two status characters
FileOf(path, status, staged, modified) ==
    [Path |-> path, Status |-> status, Staged |-> staged, Modified |-> modified]

\* the files of a list: modified in the index, added, modified in the
\* working tree, modified in both, untracked
GroupedFiles ==
    {FileOf("a.go", "M ", TRUE, FALSE), FileOf("n.go", "A ", TRUE, FALSE),
     FileOf("b.go", " M", FALSE, TRUE), FileOf("d.go", "MM", TRUE, TRUE),
     FileOf("c.go", "??", FALSE, FALSE)}

\* the file lists of length n
RECURSIVE FileListsOf(_)
FileListsOf(n) ==
    IF n = 0 THEN {<<>>}
    ELSE {Append(list, file) : list \in FileListsOf(n - 1), file \in GroupedFiles}

FileLists == UNION {FileListsOf(n) : n \in 0..MaxFiles}

\* a model whose file list is set, and groupFiles() called on it
GroupInit ==
    /\ pc = "group"
    /\ StatusIdle /\ BinaryIdle /\ DiffIdle /\ UntrackedIdle /\ FacadeIdle /\ EnvIdle
    /\ kbm = <<>> /\ cmds = <<>>
    /\ \E fileStatus \in FileLists : model = [NewModel EXCEPT !.fileStatus = fileStatus]
    /\ ret = [name |-> "NewModel"]

GroupFilesCall ==
    /\ pc = "group"
    /\ ret.name = "NewModel"
    /\ ret' = [name |-> "groupFiles", groups |-> groupFiles(model.fileStatus)]
    /\ UNCHANGED <<pc, output, files, content, binary, doc, diffs, disk, filePaths>>
    /\ UNCHANGED <<exit, err, facadeVars, envVars, kbm, model, cmds>>

GroupNext == GroupFilesCall
SpecGroup == GroupInit /\ [][GroupNext]_vars

\* ---------------------------------------------------- formatCommitMessage

\* strings.TrimSpace(line) == "": the line holds white space only
BlankLine(line) == \A i \in 1..Len(line) : IsSpace(line[i])

\* the loop of formatCommitMessage that removes the trailing empty lines
RECURSIVE DropTrailingBlank(_)
DropTrailingBlank(lines) ==
    IF Len(lines) > 0 /\ BlankLine(lines[Len(lines)])
    THEN DropTrailingBlank(SubSeq(lines, 1, Len(lines) - 1))
    ELSE lines

\* variant: the trailing empty lines are kept
formatCommitMessage_KeepsTrailing(message) ==
    LET lines == Split(message) IN
    IF Len(lines) <= 1 THEN message
    ELSE IF BlankLine(lines[2]) THEN JoinLF(lines)
    ELSE JoinLF(<<lines[1], <<>>>> \o Tail(lines))

\* formatCommitMessage(message), the message a sequence of characters
formatCommitMessage(message) ==
    LET lines == Split(message) IN
    IF Len(lines) <= 1 THEN message
    ELSE LET kept == DropTrailingBlank(lines) IN
         IF Len(kept) <= 1 THEN JoinLF(kept)
         ELSE IF BlankLine(kept[2]) THEN JoinLF(kept)
         ELSE JoinLF(<<kept[1], <<>>>> \o Tail(kept))

\* --------------------------------------- specification: formatCommitMessage

\* longest message
MaxMessage == 5

\* the characters of a message: two letters, the blank, the newline
MessageChars == {"a", "b", SP, LF}

\* the messages of length n
RECURSIVE MessagesOf(_)
MessagesOf(n) ==
    IF n = 0 THEN {<<>>}
    ELSE {Append(message, c) : message \in MessagesOf(n - 1), c \in MessageChars}

\* the language model or the user has written a message
FormatInit ==
    /\ pc = "format"
    /\ StatusIdle /\ BinaryIdle /\ DiffIdle /\ UntrackedIdle /\ FacadeIdle /\ EnvIdle
    /\ kbm = <<>> /\ model = <<>> /\ cmds = <<>>
    /\ \E n \in 0..MaxMessage : \E message \in MessagesOf(n) :
          ret = [name |-> "message", message |-> message]

\* formatCommitMessage is called on the message, or on what it returned
FormatCall ==
    /\ pc = "format"
    /\ ret.name \in {"message", "formatCommitMessage"}
    /\ ret' = [name |-> IF ret.name = "message" THEN "formatCommitMessage"
                        ELSE "formatCommitMessage again",
               message |-> ret.message,
               input |-> IF ret.name = "message" THEN ret.message ELSE ret.result,
               result |-> IF ret.name = "message" THEN formatCommitMessage(ret.message)
                          ELSE formatCommitMessage(ret.result)]
    /\ UNCHANGED <<pc, output, files, content, binary, doc, diffs, disk, filePaths>>
    /\ UNCHANGED <<exit, err, facadeVars, envVars, kbm, model, cmds>>

FormatNext == FormatCall
SpecFormat == FormatInit /\ [][FormatNext]_vars

\* ====================================================================
\* The LLM client (package llm)
\* ====================================================================

\* the nil Provider, and the providers of a test
NilProvider == "nil"
Providers == {"provider1", "provider2"}

\* NewClient()
NewClient == [providers |-> <<>>, defaultProvider |-> ""]

\* what a method returns: the client after it, its result and its error
\* (<<>> is nil)
ClientReturns(c, provider, error) == [c |-> c, provider |-> provider, err |-> error]

\* variant: the provider registered last becomes the default
RegisterProvider_LastIsDefault(c, name, provider) ==
    IF name = "" THEN ClientReturns(c, NilProvider, <<"provider name cannot be empty">>)
    ELSE IF provider = NilProvider
    THEN ClientReturns(c, NilProvider, <<"provider cannot be nil">>)
    ELSE ClientReturns([providers |-> [n \in DOMAIN c.providers \cup {name} |->
                                           IF n = name THEN provider ELSE c.providers[n]],
                        defaultProvider |-> name],
                       NilProvider, <<>>)

\* RegisterProvider(name, provider)
RegisterProvider(c, name, provider) ==
    IF name = "" THEN ClientReturns(c, NilProvider, <<"provider name cannot be empty">>)
    ELSE IF provider = NilProvider
    THEN ClientReturns(c, NilProvider, <<"provider cannot be nil">>)
    ELSE ClientReturns([providers |-> [n \in DOMAIN c.providers \cup {name} |->
                                           IF n = name THEN provider ELSE c.providers[n]],
                        defaultProvider |-> IF c.defaultProvider = "" THEN name
                                            ELSE c.defaultProvider],
                       NilProvider, <<>>)

\* SetDefaultProvider(name)
SetDefaultProvider(c, name) ==
    IF name \notin DOMAIN c.providers
    THEN ClientReturns(c, NilProvider, <<"provider " \o name \o " not found">>)
    ELSE ClientReturns([c EXCEPT !.defaultProvider = name], NilProvider, <<>>)

\* GetProvider(name)
GetProvider(c, name) ==
    LET n == IF name = "" THEN c.defaultProvider ELSE name IN
    IF n \notin DOMAIN c.providers
    THEN ClientReturns(c, NilProvider, <<"provider " \o n \o " not found">>)
    ELSE ClientReturns(c, c.providers[n], <<>>)

\* ------------------------------------------------- specification: Client

\* the names the methods are called with
ProviderNames == {"", "openai", "mock"}

\* what is recorded of the calls: the last one with its arguments and
\* results, the name registered first and the name SetDefaultProvider took
\* last
Called(method, name, provider, r, first, set) ==
    [name |-> method, key |-> name, provider |-> provider,
     result |-> r.provider, err |-> r.err, first |-> first, set |-> set]

ClientInit ==
    /\ pc = "llm"
    /\ StatusIdle /\ BinaryIdle /\ DiffIdle /\ UntrackedIdle /\ FacadeIdle
    /\ kbm = <<>> /\ model = <<>> /\ cmds = <<>> /\ world = <<>> /\ msgs = <<>>
    /\ client = NewClient
    /\ ret = Called("NewClient", "", NilProvider,
                    ClientReturns(NewClient, NilProvider, <<>>), "", "")

CallRegisterProvider ==
    /\ pc = "llm"
    /\ \E name \in ProviderNames, provider \in Providers \cup {NilProvider} :
          LET r == RegisterProvider(client, name, provider) IN
          /\ client' = r.c
          /\ ret' = Called("RegisterProvider", name, provider, r,
                           IF ret.first = "" /\ r.err = <<>> THEN name ELSE ret.first,
                           ret.set)
    /\ UNCHANGED <<pc, output, files, content, binary, doc, diffs, disk, filePaths>>
    /\ UNCHANGED <<exit, err, facadeVars, kbm, model, cmds, world, msgs>>

CallSetDefaultProvider ==
    /\ pc = "llm"
    /\ \E name \in ProviderNames :
          LET r == SetDefaultProvider(client, name) IN
          /\ client' = r.c
          /\ ret' = Called("SetDefaultProvider", name, NilProvider, r, ret.first,
                           IF r.err = <<>> THEN name ELSE ret.set)
    /\ UNCHANGED <<pc, output, files, content, binary, doc, diffs, disk, filePaths>>
    /\ UNCHANGED <<exit, err, facadeVars, kbm, model, cmds, world, msgs>>

CallGetProvider ==
    /\ pc = "llm"
    /\ \E name \in ProviderNames :
          LET r == GetProvider(client, name) IN
          /\ client' = r.c
          /\ ret' = Called("GetProvider", name, NilProvider, r, ret.first, ret.set)
    /\ UNCHANGED <<pc, output, files, content, binary, doc, diffs, disk, filePaths>>
    /\ UNCHANGED <<exit, err, facadeVars, kbm, model, cmds, world, msgs>>

ClientNext == CallRegisterProvider \/ CallSetDefaultProvider \/ CallGetProvider
SpecClient == ClientInit /\ [][ClientNext]_vars

\* ------------------------------------- specification: the files of a diff

\* most key presses of a session in which the user walks through diffs
MaxNavKeys == 4

\* the keys of that session: to the log, the diff of a commit, the diff of
\* the file under the cursor, the next and the previous file, the other
\* side (staged or unstaged) of the file, back to the status
NavKeys == {"l", "enter", "d", "right", "left", "T", "s"}

\* the user presses one of the keys, once the commands in flight have ended
NavKeyPress ==
    /\ pc = "tui"
    /\ ret.presses < MaxNavKeys
    /\ cmds = EmptyBag
    /\ \E key \in NavKeys : KeyMsg(key, cmds, ret.presses + 1)
    /\ UNCHANGED <<output, files, content, binary, doc, diffs, disk, filePaths>>
    /\ UNCHANGED <<exit, err, facadeVars, envVars, kbm>>

NavNext == NavKeyPress \/ WindowSize \/ Deliver
SpecNav == TuiInit /\ [][NavNext]_vars

\* ------------------------------------------- the repository of a session

\* The repository as the closures of the commands see it when they run: its
\* one changed file (modified in the working tree, staged, or clean once
\* committed) and the messages of the commits made.
World(file, log) == [file |-> file, log |-> log]

\* GetStatus() on that repository
WorldStatus(w) ==
    CASE w.file = "staged" -> <<FileOf("a.go", "M ", TRUE, FALSE)>>
      [] w.file = "modified" -> <<FileOf("a.go", " M", FALSE, TRUE)>>
      [] OTHER -> <<>>

\* GetCommitHistory(limit) on it: the commits made, their subjects the
\* messages
WorldHistory(w) ==
    [i \in 1..Len(w.log) |->
        [CommitOf("1111111100", "11111111") EXCEPT !.Subject = w.log[i]]]

\* what the closure of a command leaves when it has run: the repository, the
\* model (the commit closures write generatedMessage) and the message
Left(w, mdl, msg) == [w |-> w, m |-> mdl, msg |-> msg]

\* the closure of a git call that changes the state of the file
Staging(w, mdl, from, to, done) ==
    {Left(IF w.file = from THEN [w EXCEPT !.file = to] ELSE w, mdl,
         OperationCompletedMsg(done))}

\* the closure of commitStagedChanges()
commitStagedChanges(w, mdl) ==
    IF w.file # "staged" THEN {Left(w, mdl, ErrorMsg("No staged changes to commit"))}
    ELSE IF mdl.generatedMessage = ""
    THEN {Left(w, mdl, Msg("autoGenerateAndCommitMsg", <<>>, "", FALSE, 0))}
    ELSE {Left(w, mdl, ErrorMsg("Failed to commit: " \o RepoError)),
          Left(World("clean", Append(w.log, mdl.generatedMessage)),
              [mdl EXCEPT !.generatedMessage = ""],
              OperationCompletedMsg("Commit created successfully"))}

\* the closures of generateCommitMessage() and
\* generateCommitMessageForAutoCommit(): type is the message of a success
generateCommitMessage(w, mdl, type) ==
    IF w.file # "staged"
    THEN {Left(w, mdl, ErrorMsg("No staged changes to generate commit message for"))}
    ELSE {Left(w, mdl, ErrorMsg("Failed to generate commit message: " \o RepoError)),
          Left(w, mdl, Msg(type, <<>>, LLMMessage, FALSE, LLMConfidence))}

\* the closure of performAutoCommit(): Commit fails on an empty message and
\* where nothing is staged
performAutoCommit(w, mdl) ==
    IF w.file # "staged" \/ mdl.generatedMessage = ""
    THEN {Left(w, mdl, ErrorMsg("Failed to commit: " \o RepoError))}
    ELSE {Left(w, mdl, ErrorMsg("Failed to commit: " \o RepoError)),
          Left(World("clean", Append(w.log, mdl.generatedMessage)),
              [mdl EXCEPT !.generatedMessage = ""],
              OperationCompletedMsg("Auto-commit completed successfully"))}

\* the closure of a command run on the repository and the model as they are
\* then; the git calls of a refresh and of staging succeed, a commit and the
\* LLM can fail
Closure(w, mdl, cmd) ==
    CASE cmd.name = "errorMsg" -> {Left(w, mdl, ErrorMsg(cmd.arg))}
      [] cmd.name = "refreshStatus" ->
            {Left(w, mdl, Msg("statusRefreshedMsg", WorldStatus(w), "", FALSE, 0))}
      [] cmd.name = "refreshCommitHistory" ->
            {Left(w, mdl, Msg("commitHistoryRefreshedMsg", WorldHistory(w), "", FALSE, 0))}
      [] cmd.name = "stageAllFiles" ->
            Staging(w, mdl, "modified", "staged", "Staged all files")
      [] cmd.name = "stageCurrentFile" ->
            Staging(w, mdl, "modified", "staged", "Staged: " \o cmd.arg)
      [] cmd.name = "unstageCurrentFile" ->
            Staging(w, mdl, "staged", "modified", "Unstaged: " \o cmd.arg)
      [] cmd.name = "unstageAllFiles" ->
            LET staged == groupFiles(mdl.fileStatus).staged IN
            IF Len(staged) = 0
            THEN {Left(w, mdl, ErrorMsg("No staged files to unstage"))}
            ELSE Staging(w, mdl, "staged", "modified",
                         "Unstaged " \o Decimal(Len(staged)) \o " files")
      [] cmd.name = "commitStagedChanges" -> commitStagedChanges(w, mdl)
      [] cmd.name = "generateCommitMessage" ->
            generateCommitMessage(w, mdl, "commitMessageGeneratedMsg")
      [] cmd.name = "generateCommitMessageForAutoCommit" ->
            generateCommitMessage(w, mdl, "commitAfterGenerationMsg")
      [] cmd.name = "performAutoCommit" -> performAutoCommit(w, mdl)

\* ------------------------------------------- specification: the session

\* most key presses of a session
MaxSessionKeys == 2

\* the keys of the session: stage all, refresh, generate a message, commit,
\* quick commit, to the log, and a key a configuration binds
SessionKeys == {"a", "r", "g", "c", "C", "l", "x"}

\* the key bindings of the configuration: none, or the commit action on x
SessionConfigs == {<<>>, [commit |-> "x"]}

\* a message a command sent to the program, with the key tea.Sequence sends
\* after it
Sent(msg, next) == [msg |-> msg, next |-> next]

\* the goroutine of a command ran its closure
ClosureRan(name) ==
    Handled(name, "", [action |-> "", handled |-> FALSE], ret.presses)

\* the user presses a key while commands are in flight: Update(tea.KeyMsg)
\* and the rendering of the model
SessionKeyMsg(key, sent, presses) ==
    LET r == Rendered(handleUnifiedKeyPress(model, kbm.bindings, key)) IN
    /\ model' = r.m
    /\ cmds' = Issue(cmds, r.cmd)
    /\ msgs' = sent
    /\ pc' = IF r.panic THEN "panic" ELSE pc
    /\ ret' = Handled("KeyMsg", key,
                      HandleKeyPress(kbm.bindings, key, model.currentView), presses)
    /\ UNCHANGED world

Press ==
    /\ pc = "session"
    /\ ret.presses < MaxSessionKeys
    /\ \E key \in SessionKeys : SessionKeyMsg(key, msgs, ret.presses + 1)
    /\ UNCHANGED <<output, files, content, binary, doc, diffs, disk, filePaths>>
    /\ UNCHANGED <<exit, err, facadeVars, client, kbm>>

\* the goroutine of a command runs its closure on the repository and on the
\* model as they are then, and sends the message
RunCmd ==
    /\ pc = "session"
    /\ \E cmd \in BagToSet(cmds) : \E o \in Closure(world, model, cmd) :
          /\ world' = o.w
          /\ model' = o.m
          /\ cmds' = cmds (-) SetToBag({cmd})
          /\ msgs' = msgs (+) SetToBag({Sent(o.msg, cmd.next)})
          /\ ret' = ClosureRan(cmd.name)
    /\ UNCHANGED <<pc, output, files, content, binary, doc, diffs, disk, filePaths>>
    /\ UNCHANGED <<exit, err, facadeVars, client, kbm>>

\* the program receives a message: Update and the rendering of the model;
\* tea.Sequence then sends its key
Receive ==
    /\ pc = "session"
    /\ \E sent \in BagToSet(msgs) :
          LET rest == msgs (-) SetToBag({sent}) IN
          IF sent.msg.type = "KeyMsg"
          THEN SessionKeyMsg(sent.msg.text, rest, ret.presses)
          ELSE LET r == Rendered(Update(model, sent.msg)) IN
               /\ model' = r.m
               /\ cmds' = Issue(cmds, r.cmd)
               /\ msgs' = IF sent.next = "" THEN rest
                          ELSE rest (+) SetToBag({Sent(Msg("KeyMsg", <<>>, sent.next,
                                                           FALSE, 0), "")})
               /\ pc' = IF r.panic THEN "panic" ELSE pc
               /\ ret' = Handled(sent.msg.type, "",
                                 [action |-> "", handled |-> FALSE], ret.presses)
               /\ UNCHANGED world
    /\ UNCHANGED <<output, files, content, binary, doc, diffs, disk, filePaths>>
    /\ UNCHANGED <<exit, err, facadeVars, client, kbm>>

\* after NewModel(cfg, repo, llmClient), Init() and the first
\* tea.WindowSizeMsg, the two refresh commands of Init() ended, on a
\* repository without commits whose file is modified or staged
SessionInit ==
    /\ pc = "session"
    /\ StatusIdle /\ BinaryIdle /\ DiffIdle /\ UntrackedIdle /\ FacadeIdle
    /\ client = <<>>
    /\ \E config \in SessionConfigs : kbm \in NewKeyBindingManager(config)
    /\ \E file \in {"modified", "staged"} :
          /\ world = World(file, <<>>)
          /\ model = View([NewModel EXCEPT !.height = 10,
                                           !.fileStatus = WorldStatus(world)]).m
    /\ cmds = EmptyBag
    /\ msgs = EmptyBag
    /\ ret = Handled("Init", "", [action |-> "", handled |-> FALSE], 0)

SessionNext == Press \/ RunCmd \/ Receive
SpecSession == SessionInit /\ [][SessionNext]_vars

\* the session where no goroutine and no message waits for ever: each
\* command is run in a goroutine of its own, and the event loop takes every
\* message sent to it
SpecSessionFair == SpecSession /\ WF_vars(RunCmd) /\ WF_vars(Receive)

\* ------------------------------------ specification: the loading session

\* most key presses of a session in which the user generates and commits
MaxLoadingKeys == 1

\* the keys of that session: generate a message, generate it again, quick
\* commit, commit, stage all
LoadingKeys == {"g", "G", "C", "c", "a"}

\* the user presses one of them while commands are in flight
LoadingPress ==
    /\ pc = "session"
    /\ ret.presses < MaxLoadingKeys
    /\ \E key \in LoadingKeys : SessionKeyMsg(key, msgs, ret.presses + 1)
    /\ UNCHANGED <<output, files, content, binary, doc, diffs, disk, filePaths>>
    /\ UNCHANGED <<exit, err, facadeVars, client, kbm>>

\* the session begins with the default key bindings
LoadingInit == SessionInit /\ kbm.config = <<>>

LoadingNext == LoadingPress \/ RunCmd \/ Receive
SpecLoading == LoadingInit /\ [][LoadingNext]_vars

\* every started command returns its message and every message is
\* delivered: no goroutine and no message waits for ever
SpecLoadingFair == SpecLoading /\ WF_vars(RunCmd) /\ WF_vars(Receive)

\* ------------------------------------------- claims: KeyBindingManager

\* the keys whose list holds a binding of the action
KeysOf(bindings, action) ==
    {k \in DOMAIN bindings : FirstWithAction(bindings[k], action) # 0}

\* the bindings of a list whose action the configuration does not name
RECURSIVE OtherBindings(_, _)
OtherBindings(bindingList, config) ==
    IF bindingList = <<>> THEN <<>>
    ELSE IF Head(bindingList).Action \in DOMAIN config
    THEN OtherBindings(Tail(bindingList), config)
    ELSE <<Head(bindingList)>> \o OtherBindings(Tail(bindingList), config)

\* the actions of the default table, and the views an action applies to in it
DefaultActions == {defaultBindings[i].Action : i \in DOMAIN defaultBindings}
DefaultViews(action) ==
    UNION {defaultBindings[i].Context :
           i \in {j \in DOMAIN defaultBindings : defaultBindings[j].Action = action}}

\* a manager as NewKeyBindingManager returned it
FreshManager == pc = "keys" /\ ret.name = "NewKeyBindingManager"

\* the table holds the action at the key its configuration names and at no
\* other key
MovedToKey(action) ==
    KeysOf(kbm.bindings, action) = {kbm.config[action]}

\* the bindings of the actions the configuration does not name are those of
\* the default table, at their keys and in their order
OthersUnchanged ==
    \A k \in DOMAIN initializeDefaultBindings \cup DOMAIN kbm.bindings :
        OtherBindings(BindingsAt(kbm.bindings, k), kbm.config)
            = OtherBindings(BindingsAt(initializeDefaultBindings, k), kbm.config)

\* pressing the configured key yields the action in every view it applies to
PressYields(action) ==
    \A v \in DefaultViews(action) :
        HandleKeyPress(kbm.bindings, kbm.config[action], v)
            = [action |-> action, handled |-> TRUE]

\* C28: after NewKeyBindingManager(cfg), for every action A of the default
\* table that cfg maps to a key K: K holds a binding of A, no other key
\* does, the bindings of the other actions are unchanged, and pressing K in
\* a view where A applies yields A
C28_CustomOverride ==
    FreshManager =>
        \A action \in DOMAIN kbm.config \cap DefaultActions :
            /\ MovedToKey(action)
            /\ OthersUnchanged
            /\ PressYields(action)

\* C29: AddCustomBinding(key, action, ...) returns an error and leaves the
\* table unchanged when the key is empty, the action is empty, or the key
\* is ctrl+c, ctrl+z or ctrl+d and the action neither quit nor
\* nav_page_down; otherwise it appends the binding to the list of the key
\* and leaves the lists of all other keys unchanged
C29_AddCustomBinding ==
    [][ret'.name = "AddCustomBinding" =>
        LET key == ret'.key
            action == ret'.action
            refused == \/ key = ""
                       \/ action = ""
                       \/ /\ key \in {"ctrl+c", "ctrl+z", "ctrl+d"}
                          /\ action \notin {"quit", "nav_page_down"}
            old == BindingsAt(kbm.bindings, key)
            new == BindingsAt(kbm'.bindings, key)
        IN IF refused THEN ret'.err # <<>> /\ kbm' = kbm
           ELSE /\ ret'.err = <<>>
                /\ Len(new) = Len(old) + 1
                /\ SubSeq(new, 1, Len(old)) = old
                /\ new[Len(new)].Key = key /\ new[Len(new)].Action = action
                /\ DOMAIN kbm'.bindings = DOMAIN kbm.bindings \cup {key}
                /\ \A k \in DOMAIN kbm.bindings \ {key} :
                      kbm'.bindings[k] = kbm.bindings[k]
                /\ kbm'.config = kbm.config]_vars

\* a system key was bound to quit, after the bindings the key had
C29_Witness ==
    /\ pc = "keys" /\ ret.name = "AddCustomBinding"
    /\ ret.key = "ctrl+d" /\ ret.action = "quit" /\ ret.err = <<>>
    /\ Len(kbm.bindings["ctrl+d"]) = 2
    /\ kbm.bindings["ctrl+d"][2].Action = "quit"

\* ------------------------------------------------------- claims: the TUI

\* the actions whose handler in executeAction is a call of switchView, and
\* the view each of them asks for
SwitchActions ==
    {"help", "status", "diff", "log", "show_staged_diff", "return_to_status"}
SwitchTarget(action) ==
    CASE action = "help" -> ViewModeHelp
      [] action \in {"status", "return_to_status"} -> ViewModeStatus
      [] action \in {"diff", "show_staged_diff"} -> ViewModeDiff
      [] action = "log" -> ViewModeLog

\* what switchView(view) promises of the model it returns
Switched(mdl, view) ==
    /\ mdl.currentView = view
    /\ mdl.cursor = 0
    /\ mdl.errorMessage = ""
    /\ mdl.statusMessage = ""

\* C22: switchView(v), for every view v and from every model state the
\* session reaches, gives a model whose currentView is v, whose cursor is 0
\* and whose errorMessage and statusMessage are empty; and every key press
\* whose action switches the view leaves the model of the session so.
C22_SwitchView ==
    [][/\ \A view \in ViewModes : Switched(switchView(model, view), view)
       /\ (ret'.name = "KeyMsg" /\ ret'.handled /\ ret'.action \in SwitchActions)
            => Switched(model', SwitchTarget(ret'.action))]_vars

\* the second key press of a session has switched to the log view, the
\* files and the commits of the repository being loaded
C22_Witness ==
    /\ ret.name = "KeyMsg" /\ ret.action = "log" /\ ret.presses = 2
    /\ model.currentView = ViewModeLog
    /\ model.fileStatus # <<>>
    /\ model.cursor = 0 /\ model.statusMessage = "" /\ model.errorMessage = ""

\* the places, in the list of a key, of the bindings whose context names
\* the view
Applicable(bindings, key, view) ==
    IF key \notin DOMAIN bindings THEN {}
    ELSE {i \in 1..Len(bindings[key]) : view \in bindings[key][i].Context}

\* the answer (action, handled) is that of the first binding of the key
\* that applies to the view, or ("", false) when none applies
DispatchesFirst(bindings, key, view, action, handled) ==
    LET places == Applicable(bindings, key, view) IN
    /\ handled <=> places # {}
    /\ places = {} => action = ""
    /\ places # {} =>
         \E i \in places :
            /\ \A j \in places : i <= j
            /\ action = bindings[key][i].Action

\* C23: for every key pressed in every view, HandleKeyPress answers
\* (action, true) iff a binding registered for the key names the view in its
\* context, the action being that of the first such binding of the key's
\* list; a key press that is not handled leaves the model as it was and
\* issues no command.
C23_KeyDispatch ==
    [][ret'.name = "KeyMsg"
         => /\ DispatchesFirst(kbm.bindings, ret'.key, model.currentView,
                               ret'.action, ret'.handled)
            /\ ~ret'.handled
                 => /\ model' = model
                    /\ pc' = pc
                    /\ \A cmd \in BagToSet(cmds') : cmd \in BagToSet(cmds)]_vars

\* space, which the table binds in status view only, was pressed in diff
\* view and not handled
C23_Witness ==
    /\ ret.name = "KeyMsg" /\ ret.key = "space" /\ ~ret.handled
    /\ model.currentView = ViewModeDiff
    /\ Applicable(kbm.bindings, "space", ViewModeStatus) # {}

\* the error executeAction ends with when it has no case for the action
UnknownActionError(action) == "Unknown action: " \o action

\* C24: every action a binding of the default table yields in some view is
\* executed by executeAction without the error "Unknown action"; in status
\* view the key k issues the discard of the changes of the file under the
\* cursor and the key 1 does not end in that error either.
C24_DefaultActionsExecuted ==
    [][(ret'.name = "KeyMsg" /\ ret'.handled)
         => /\ model'.errorMessage # UnknownActionError(ret'.action)
            /\ (ret'.key = "k" /\ model.currentView = ViewModeStatus)
                 => \E cmd \in BagToSet(cmds') :
                       cmd = discardCurrentFileChanges(model)]_vars

\* C25: in diff view the key up takes one from scrollOffset when it is above
\* 0 and the key down adds one to it when it is below the maximum scroll
\* offset of the diff shown.
C25_DiffScroll ==
    [][(ret'.name = "KeyMsg" /\ model.currentView = ViewModeDiff
            /\ ~ScrollPanics(model))
         => LET offset == model.diffViewState.scrollOffset IN
            /\ (ret'.key = "up" /\ offset > 0)
                 => model'.diffViewState.scrollOffset = offset - 1
            /\ (ret'.key = "down" /\ offset < getMaxDiffScroll(model))
                 => model'.diffViewState.scrollOffset = offset + 1]_vars

\* C26: in help view a key press returns the model to the status view; the
\* keys that have a binding of their own in help view (q, ctrl+c, s, d, l)
\* are left aside here, the claim is read for every other key.
C26_HelpAnyKey ==
    [][(ret'.name = "KeyMsg" /\ model.currentView = ViewModeHelp
            /\ Applicable(kbm.bindings, ret'.key, ViewModeHelp) = {})
         => model'.currentView = ViewModeStatus]_vars

\* C27: in log view, the cursor being on a commit of the history, the key
\* ctrl+c yields the action copy_commit_hash, sets the status message to
\* "Commit hash copied: " followed by the short hash of that commit, and
\* issues no command that ends the program.
C27_CopyCommitHash ==
    [][(ret'.name = "KeyMsg" /\ ret'.key = "ctrl+c"
            /\ model.currentView = ViewModeLog
            /\ model.cursor < Len(model.commitHistory))
         => /\ ret'.action = "copy_commit_hash"
            /\ model'.statusMessage = "Commit hash copied: "
                   \o model.commitHistory[model.cursor + 1].ShortHash
            /\ \A cmd \in BagToSet(cmds') : cmd.name # "tea.Quit"]_vars

\* ---------------------------------------------------- claims: groupFiles

\* the group the claim gives a file
GroupOf(file) ==
    IF file.Staged THEN "staged"
    ELSE IF file.Status = "??" THEN "untracked"
    ELSE "unstaged"

\* the places of the list whose file belongs to the group
PlacesOf(fileStatus, group) ==
    {i \in 1..Len(fileStatus) : GroupOf(fileStatus[i]) = group}

\* the sequence holds the files of the group, in the order of the list: its
\* k-th file is the file at the k-th place of the group
HoldsGroup(sequence, fileStatus, group) ==
    LET places == PlacesOf(fileStatus, group) IN
    /\ Len(sequence) = Cardinality(places)
    /\ \A i \in places :
          sequence[Cardinality({j \in places : j <= i})] = fileStatus[i]

\* C30: groupFiles partitions the file list: the staged group holds the
\* files whose Staged flag is set, the untracked group the others whose
\* status is "??", the unstaged group the rest, each in the order of the
\* list, and the three lengths add up to the length of the list.
C30_GroupFiles ==
    ret.name = "groupFiles" =>
        /\ HoldsGroup(ret.groups.staged, model.fileStatus, "staged")
        /\ HoldsGroup(ret.groups.unstaged, model.fileStatus, "unstaged")
        /\ HoldsGroup(ret.groups.untracked, model.fileStatus, "untracked")
        /\ Len(ret.groups.staged) + Len(ret.groups.unstaged)
              + Len(ret.groups.untracked) = Len(model.fileStatus)

\* groupFiles was called on a list that starts with an untracked file and
\* holds files of the three groups, two of them staged
C30_Witness ==
    /\ ret.name = "groupFiles"
    /\ Len(model.fileStatus) >= 3
    /\ GroupOf(model.fileStatus[1]) = "untracked"
    /\ ret.groups.unstaged # <<>>
    /\ Len(ret.groups.staged) >= 1
    /\ ret.groups.untracked = <<model.fileStatus[1]>>

\* -------------------------------------------- claims: formatCommitMessage

\* the lines of a message without its trailing blank lines, told without
\* the loop of the code: the lines up to the last one that is not blank
LinesKept(message) ==
    LET lines == Split(message)
        full == {i \in 1..Len(lines) : ~BlankLine(lines[i])}
    IN IF full = {} THEN <<>>
       ELSE SubSeq(lines, 1, CHOOSE i \in full : \A j \in full : j <= i)

\* what the claim says of the result of one call
Formatted(message, result) ==
    LET lines == Split(message)
        kept == LinesKept(message)
        out == Split(result)
    IN IF Len(lines) = 1 THEN result = message
       ELSE IF Len(kept) = 0 THEN result = <<>>
       ELSE IF Len(kept) = 1 THEN result = kept[1]
       ELSE /\ out[1] = kept[1]
            /\ BlankLine(out[2])
            /\ \/ out = kept
               \/ /\ ~BlankLine(kept[2])
                  /\ out = <<kept[1], <<>>>> \o Tail(kept)

\* C31: formatCommitMessage returns a message of one line unchanged; of a
\* message of several lines it removes the trailing blank lines and, when
\* two lines or more remain, returns the subject as line 1, a blank line 2
\* and the body lines in their order; formatting what it returned changes
\* nothing.
C31_FormatCommitMessage ==
    /\ ret.name = "formatCommitMessage" => Formatted(ret.message, ret.result)
    /\ ret.name = "formatCommitMessage again" => ret.result = ret.input

\* a subject directly followed by a body line and a trailing newline was
\* formatted, and the result formatted again
C31_Witness ==
    /\ ret.name = "formatCommitMessage again"
    /\ ret.message = <<"a", LF, "b", LF>>
    /\ ret.result = <<"a", LF, LF, "b">>

\* --------------------------------------------------------- claims: Client

\* the names that are registered
Registered(c) == DOMAIN c.providers

\* defaultProvider is empty iff nothing is registered, and else names a
\* registered provider: the one registered first as long as no call of
\* SetDefaultProvider has succeeded, and afterwards the name that call took
DefaultIsRegistered ==
    /\ client.defaultProvider = "" <=> Registered(client) = {}
    /\ Registered(client) # {} => client.defaultProvider \in Registered(client)
    /\ client.defaultProvider = IF ret.set = "" THEN ret.first ELSE ret.set

\* what a call of the three methods returns and leaves
CallContract ==
    /\ ret'.name = "RegisterProvider" =>
          /\ ret'.err # <<>> <=> (ret'.key = "" \/ ret'.provider = NilProvider)
          /\ ret'.err = <<>> =>
                /\ Registered(client') = Registered(client) \cup {ret'.key}
                /\ client'.providers[ret'.key] = ret'.provider
                /\ \A n \in Registered(client) \ {ret'.key} :
                      client'.providers[n] = client.providers[n]
    /\ ret'.name = "SetDefaultProvider" =>
          /\ ret'.err # <<>> <=> ret'.key \notin Registered(client)
          /\ ret'.err = <<>> => client'.providers = client.providers
    /\ ret'.name = "GetProvider" =>
          /\ client' = client
          /\ (ret'.key = "" /\ Registered(client) # {}) =>
                /\ ret'.err = <<>>
                /\ ret'.result = client.providers[client.defaultProvider]
    /\ ret'.err # <<>> => client' = client

\* C32: after every sequence of calls of RegisterProvider and
\* SetDefaultProvider, failing ones included, defaultProvider is empty iff
\* no provider is registered and else names a registered provider, the one
\* registered first until SetDefaultProvider succeeds; RegisterProvider with
\* an empty name or a nil provider and SetDefaultProvider with a name that is
\* not registered return an error and change nothing; GetProvider("")
\* returns the default provider.
C32_ClientRegistry == []DefaultIsRegistered /\ [][CallContract]_vars

\* two providers are registered, the second was made the default, and
\* GetProvider("") has returned it
C32_Witness ==
    /\ ret.name = "GetProvider" /\ ret.key = "" /\ ret.err = <<>>
    /\ Registered(client) = {"openai", "mock"}
    /\ ret.first = "openai" /\ ret.set = "mock"
    /\ client.defaultProvider = "mock"
    /\ ret.result = client.providers["mock"]
    /\ client.providers["mock"] # client.providers["openai"]

\* ------------------------------------------------- claims: the status view

\* the section toggleCurrentSection finds the cursor in
SectionOfCursor(mdl) ==
    LET g == groupFiles(mdl.fileStatus) IN
    IF mdl.cursor < Len(g.staged) THEN "staged_changes"
    ELSE IF mdl.cursor < Len(g.staged) + Len(g.unstaged) THEN "unstaged_changes"
    ELSE "untracked_files"

\* C33: when the key of toggle_section collapses the section the cursor is
\* in, the render that follows does not list the files of that section and
\* the section is still collapsed after it; two toggles in a row give back
\* the expansion state they started from.
C33_ToggleSection ==
    [][(ret'.name = "KeyMsg" /\ ret'.action = "toggle_section")
         => LET section == SectionOfCursor(model)
                toggled == toggleCurrentSection(model)
            IN /\ section \notin toggled.mainViewState.expandedSections
                    => /\ section \notin View(toggled).listed
                       /\ section \notin model'.mainViewState.expandedSections
               /\ toggleCurrentSection(toggled).mainViewState
                      = model.mainViewState]_vars

\* C35: in status view the cursor is an index of the file list when the
\* list is not empty, and 0 when it is empty, after every sequence of
\* navigation keys, view switches and refreshes of the status.
C35_StatusCursor ==
    model.currentView = ViewModeStatus =>
        IF Len(model.fileStatus) = 0 THEN model.cursor = 0
        ELSE 0 <= model.cursor /\ model.cursor < Len(model.fileStatus)

\* --------------------------------------------------- claims: the log view

\* C37: in log view, once the size of the window is known, the cursor is an
\* index of the history when the history is not empty and 0 when it is
\* empty, the scroll offset is not negative, and the cursor is inside the
\* visible window of a history that is not empty:
\* scrollOffset <= cursor < scrollOffset + maxVisibleCommits.
C37_LogWindow ==
    (model.currentView = ViewModeLog /\ model.height # 0) =>
        /\ IF Len(model.commitHistory) = 0 THEN model.cursor = 0
           ELSE /\ 0 <= model.cursor /\ model.cursor < Len(model.commitHistory)
                /\ model.logViewState.scrollOffset <= model.cursor
                /\ model.cursor < model.logViewState.scrollOffset
                                      + getMaxVisibleCommits(model)
        /\ model.logViewState.scrollOffset >= 0

\* ------------------------------------------------- claims: the diff view

\* C36: wherever the model holds a diff, diffViewState.selectedFile is an
\* index of currentDiff, and no handler and no rendering has indexed
\* currentDiff out of range
C36_DiffSelection ==
    /\ Len(model.currentDiff) > 0 => DiffIndexOk(model)
    /\ pc # "panic"

\* --------------------------------------------------- claims: the session

\* no command is in flight and no message waits for the program
Quiescent == cmds = EmptyBag /\ msgs = EmptyBag

\* the commands of a bag that run a function
InFlight(bag, name) ==
    LET of == {cmd \in BagToSet(bag) : cmd.name = name}
    IN IF of = {} THEN 0 ELSE CopiesIn(CHOOSE cmd \in of : TRUE, bag)

\* Update(operationCompletedMsg) starts a refresh of the status and one of
\* the history
RefreshTriggered ==
    (pc = "session" /\ ret'.name = "operationCompletedMsg") =>
        /\ InFlight(cmds', "refreshStatus") = InFlight(cmds, "refreshStatus") + 1
        /\ InFlight(cmds', "refreshCommitHistory")
               = InFlight(cmds, "refreshCommitHistory") + 1

\* once nothing is in flight the model shows the status of the repository
StatusCurrent == (pc = "session" /\ Quiescent) => model.fileStatus = WorldStatus(world)

\* C38: every operationCompletedMsg starts a refresh of status and history,
\* and once every command has ended and every message is delivered,
\* fileStatus is the status of the repository (no older refresh result has
\* overwritten a newer one)
C38_RefreshConsistency == []StatusCurrent /\ [][RefreshTriggered]_vars

\* the step clears the generated message exactly when it makes a commit with
\* that message
ClearedByCommit ==
    (model.generatedMessage # "" /\ model'.generatedMessage = "")
        <=> world'.log = Append(world.log, model.generatedMessage)

\* the step is one of Update: a key or a message of a command is handled
UpdateStep ==
    ret'.name \in {"KeyMsg", "statusRefreshedMsg", "commitHistoryRefreshedMsg",
                   "errorMsg", "commitMessageGeneratedMsg", "operationCompletedMsg",
                   "autoGenerateAndCommitMsg", "commitAfterGenerationMsg"}

\* C39: the generated message is cleared exactly when a commit that used it
\* succeeds, and the fields of the model are written by Update only, never
\* by the goroutine of a command (so that no commit started earlier erases a
\* message delivered since)
C39_GeneratedMessageIntegrity ==
    [][pc = "session" => /\ ClearedByCommit
                         /\ model' # model => UpdateStep]_vars

\* the key of the quick commit has just been handled, on staged changes
QuickCommitPressed ==
    /\ pc = "session"
    /\ ret.name = "KeyMsg" /\ ret.action = "quick_commit"
    /\ world.file = "staged"

\* C34: a quick commit on staged changes leads to a commit (with the message
\* that exists, else with one generated first), unless an error is reported,
\* under every configuration of the keys and whatever view the user goes to
\* in between
C34_QuickCommit ==
    QuickCommitPressed ~> (world.log # <<>> \/ model.errorMessage # "" \/ pc # "session")

\* ----------------------------------------------- claims: the loading flag

\* C40: whenever loading is set, it is cleared again (or the program ends),
\* every started command returning its message
C40_LoadingEnds == model.loading ~> (~model.loading \/ pc # "session")

\* the message generated for an automatic commit has arrived and ended the
\* loading that autoGenerateAndCommitMsg began
C40_Witness ==
    /\ pc = "session"
    /\ ret.name = "commitAfterGenerationMsg"
    /\ ~model.loading
    /\ model.loadingMessage = "Generating commit message and committing..."

====
